---------------------------- MODULE Spec2Model ----------------------------
(***************************************************************************)
(* State-machine model of the research agent's control loop                *)
(* (getResponse, src/src/agent.ts) together with the action schema         *)
(* generator and the safe object generator (src/src/utils/                 *)
(* safe-generator.ts).                                                     *)
(*                                                                         *)
(* One session is modelled.  A loop iteration is split at its two await    *)
(* points: BeginStep (loop test .. schema build), Generate (the call of    *)
(* generateObject .. permission reset) and one Exec* action per branch of  *)
(* the dispatch.  Strings are sequences of one-character strings so that   *)
(* String.prototype.trim is a computation, not the identity.               *)
(***************************************************************************)
EXTENDS Integers, Sequences, FiniteSets, TLC

(***************************************************************************)
(* Bounds of the model and program constants                               *)
(***************************************************************************)
\* tokenBudget of the explored sessions (the parameter's default is 1000000)
TokenBudget == 3
\* regularBudget = tokenBudget * 0.85, kept as a percentage
RegularBudgetPercent == 85
MAX_REFLECT_PER_STEP == 2
MAX_URLS_PER_STEP == 5
MAX_QUERIES_PER_STEP == 5
\* codingIssue: z.string().max(500)
MaxCodingIssueLength == 500
\* search is disabled once this many ranked URLs are queued
MaxRankedURLsForSearch == 50
\* the prompt lists the top 20 of the ranked URLs
MaxListedURLs == 20
\* maxBadAttempts (the parameter's default)
maxBadAttempts == 2

\* tokens one generateObject call records on the tracker
TokenCosts == {1}
\* usage already on a tracker handed in through existingContext
InitialUsages == {0, TokenBudget}

WS == " "
A == <<"a">>
B == <<"b">>
C == <<"c">>
D == <<"d">>
\* the session inputs explored: how the question arrives, its raw text, the
\* number of URLs mentioned in the messages and the check types the question
\* classifier returns for it
Inputs ==
  { [kind |-> "arg",    text |-> <<WS, "q", WS>>, urls |-> 0, checks |-> <<>>],
    [kind |-> "string", text |-> <<"q", WS>>,     urls |-> 1, checks |-> <<"freshness">>],
    [kind |-> "parts",  text |-> <<WS, "q">>,     urls |-> 0, checks |-> <<>>] }
TeamSizes == {1, 2}
\* sub-question lists a reflect action may carry
ReflectProposals == { <<A>>, <<A, B>>, <<B, A, C>> }
\* sub-problem lists the research planner may return
PlannerResults == { <<B>>, <<A, B>>, <<C, A, B>> }
\* number of queries with results in the first and in the second batch of a
\* search step
SearchOutcomes == { <<0, 0>>, <<1, 0>>, <<1, 1>> }

Actions == {"search", "visit", "answer", "reflect", "coding"}
\* payloads are lists of texts: the payload key is missing from the object,
\* or it holds some content
NoPayload == << <<"none">> >>
SomePayload == << <<"some">> >>
TextPayload == << <<"text">> >>

VARIABLES
  pc,                 \* control point of getResponse
  question,           \* the original question
  noDirectAnswer, teamSize,
  questionChecks,     \* what evaluateQuestion returns for the original question
  totalTokens,        \* context.tokenTracker.getTotalUsage().totalTokens
  step, totalStep,
  gaps, allQuestions, allKnowledge, diaryContext,
  allowAnswer, allowSearch, allowRead, allowReflect, allowCoding,
  schema,             \* actions permitted by the schema in use
  thisStep,
  currentQuestion,
  evaluationMetrics,
  finalAnswerPIP,     \* number of recorded improvement plans
  trivialQuestion,
  allURLs,            \* size of the URL registry
  visitedURLs,        \* number of visited URLs
  weightedURLs,       \* length of the ranked list
  urlList,            \* length of the URL list shown in the prompt of the step
  invoked,            \* collaborators called so far in the session
  finalization,       \* treatment applied to the final answer
  allContext,         \* number of steps recorded in the session history
  subproblems,        \* the sub-problems the sub-sessions were started for
  subproblemResponses, \* the sub-sessions: running, or returned with their result
  searchProvider,     \* the provider the caller selected, if any
  keywordsQueries,    \* executeSearchQueries: the queries the loop has not reached yet
  searchedQueries,    \* executeSearchQueries: the queries that returned results
  error,              \* the error that left getResponse, if any
  numRetries,         \* generateObject: numRetries of the nested invocations, outermost first
  tiers,              \* generateObject: the model calls and manual parses made so far
  primaryError,       \* generateObject: the error the current invocation caught from the primary model
  fallbackError,      \* generateObject: the error caught from the fallback model
  evaluation,         \* the result of the last evaluation of an answer
  msgWithKnowledge,   \* what composeMsgs was last given: the question and the improvement plans
  finalSteps,         \* the functions finalization applied to the answer, in order
  options,            \* generateObject: the model and whether a schema was given
  sessions,           \* team mode: the invocations of getResponse, the caller's first
  usages              \* team mode: context.tokenTracker.usages

vars == << pc, question, noDirectAnswer, teamSize, questionChecks, totalTokens, step, totalStep,
           gaps, allQuestions, allKnowledge, diaryContext,
           allowAnswer, allowSearch, allowRead, allowReflect, allowCoding,
           schema, thisStep, currentQuestion, evaluationMetrics, finalAnswerPIP,
           trivialQuestion, allURLs, visitedURLs, weightedURLs, urlList, invoked,
           finalization, allContext, subproblems, subproblemResponses,
           searchProvider, keywordsQueries, searchedQueries, error,
           numRetries, tiers, primaryError, fallbackError,
           evaluation, msgWithKnowledge, finalSteps, options, sessions, usages >>

\* no error caught
NoError == [model |-> "none", attempt |-> 0, kind |-> "none"]
\* no generateObject call
NoOptions == [model |-> "none", schema |-> FALSE]
GenState == << numRetries, tiers, primaryError, fallbackError, options >>
\* no generateObject call is being followed
GenIdle ==
  /\ numRetries = <<>> /\ tiers = <<>> /\ primaryError = NoError /\ fallbackError = NoError
  /\ options = NoOptions

\* let evaluation = {pass: true, think: ''}
NoEvaluation == [pass |-> TRUE, type |-> "none", plan |-> FALSE]
\* no prompt composed yet
NoMessages == [question |-> <<>>, hasPIP |-> FALSE, pip |-> 0]
EvalState == << evaluation, msgWithKnowledge >>
EvalIdle == evaluation = NoEvaluation /\ msgWithKnowledge = NoMessages

FinalState == << finalization, finalSteps >>
SessionState == << sessions, usages >>
\* the invocations of getResponse are not followed one by one
SessionIdle == sessions = <<>> /\ usages = <<>>

(***************************************************************************)
(* Pure helpers                                                            *)
(***************************************************************************)
RECURSIVE TrimStart(_)
TrimStart(s) == IF s # <<>> /\ Head(s) = WS THEN TrimStart(Tail(s)) ELSE s

RECURSIVE TrimEnd(_)
TrimEnd(s) ==
  IF s # <<>> /\ s[Len(s)] = WS THEN TrimEnd(SubSeq(s, 1, Len(s) - 1)) ELSE s

\* String.prototype.trim
Trim(s) == TrimEnd(TrimStart(s))

\* the question getResponse works on: the trimmed argument, the trimmed last
\* string message, or the text of the last text part taken as it is
ExtractQuestion(in) == IF in.kind = "parts" THEN in.text ELSE Trim(in.text)

Range(s) == { s[i] : i \in DOMAIN s }

\* Array.prototype.indexOf, 1-based; 0 when absent
RECURSIVE IndexOf(_, _, _)
IndexOf(s, x, i) ==
  IF i > Len(s) THEN 0 ELSE IF s[i] = x THEN i ELSE IndexOf(s, x, i + 1)

\* gaps.splice(removedIndex, 1) with removedIndex = gaps.indexOf(q)
RemoveAt(s, i) == SubSeq(s, 1, i - 1) \o SubSeq(s, i + 1, Len(s))

\* variant: the last entry is removed, whatever it is
SpliceLast(g, q) == RemoveAt(g, Len(g))

SpliceGap(g, q) == RemoveAt(g, IndexOf(g, q, 1))

\* includesEval
includesEval(allChecks, evalType) ==
  \E i \in DOMAIN allChecks : allChecks[i].type = evalType

\* dedupQueries: the new queries that are neither in the existing list nor
\* repeated among themselves, in order
RECURSIVE dedupQueries(_, _)
dedupQueries(newQueries, existing) ==
  IF newQueries = <<>> THEN <<>>
  ELSE IF Head(newQueries) \in Range(existing)
       THEN dedupQueries(Tail(newQueries), existing)
       ELSE <<Head(newQueries)>>
              \o dedupQueries(Tail(newQueries), existing \o <<Head(newQueries)>>)

\* chooseK: at most k of the list
chooseK(s, k) == IF Len(s) > k THEN SubSeq(s, 1, k) ELSE s

Min(a, b) == IF a < b THEN a ELSE b

\* URLs
U1 == <<"u", "1">>
U2 == <<"u", "2">>
\* a registry entry that normalizeUrl rewrites
U3Slash == <<"u", "3", "/">>
U3 == <<"u", "3">>
U4 == <<"u", "4">>
U5 == <<"u", "5">>
U6 == <<"u", "6">>
\* urlList[idx - 1] past the ends of the list
Undefined == <<>>

\* [...new Set(list)]
RECURSIVE Unique(_)
Unique(list) ==
  IF list = <<>> THEN <<>>
  ELSE LET rest == Unique(SubSeq(list, 1, Len(list) - 1))
           last == list[Len(list)]
       IN IF last \in Range(rest) THEN rest ELSE Append(rest, last)

\* getAgentSchema: the actions whose sub-schema is included
getAgentSchema(reflect, read, answer, search, coding) ==
  (IF search THEN {"search"} ELSE {}) \cup
  (IF coding THEN {"coding"} ELSE {}) \cup
  (IF answer THEN {"answer"} ELSE {}) \cup
  (IF reflect THEN {"reflect"} ELSE {}) \cup
  (IF read THEN {"visit"} ELSE {})

\* variant: the loop test compares against the whole budget, inclusively
WithinWholeBudget(used) == used <= TokenBudget

\* the while condition of the main loop
WithinRegularBudget(used) == used * 100 < TokenBudget * RegularBudgetPercent

\* variant: the usage of a call is not recorded
TrackNothing(total, tokens) == total

\* TokenTracker.trackUsage followed by getTotalUsage().totalTokens
TrackUsage(total, tokens) == total + tokens

\* variant: the tracker keeps the latest usage only
trackLatestUsage(us, tool, tokens) == << [tool |-> tool, tokens |-> tokens] >>

\* TokenTracker.trackUsage: the usage is pushed on the list
trackUsage(us, tool, tokens) == Append(us, [tool |-> tool, tokens |-> tokens])

\* TokenTracker.getTotalUsage().totalTokens: the sum over the list
RECURSIVE getTotalUsage(_)
getTotalUsage(us) == IF us = <<>> THEN 0 ELSE Head(us).tokens + getTotalUsage(Tail(us))

\* variant: the step number is not tested
IsDirectAnswerAllowed(n, nda) == ~nda

\* totalStep === 1 && !noDirectAnswer: the answer is taken as it is
IsTrivialAnswer(n, nda) == n = 1 /\ ~nda

\* variant: the loop goes on with an empty metric list
NeverExhausted(left) == FALSE

\* evaluationMetrics[currentQuestion].length === 0 after a failed evaluation
MetricsExhausted(left) == left = <<>>

\* variant: beast mode runs whatever the loop left
AlwaysBeastMode(s) == TRUE

\* if (!thisStep.isFinal) after the loop
EntersBeastMode(s) == ~s.isFinal

\* variant: every check gets one evaluation more
GenerousMetrics(checks) ==
  [ i \in 1 .. Len(checks) |-> [type |-> checks[i], numEvalsRequired |-> maxBadAttempts + 1] ]
    \o << [type |-> "strict", numEvalsRequired |-> maxBadAttempts + 1] >>

\* the metric list created for the original question at step 1
InitialMetrics(checks) ==
  [ i \in 1 .. Len(checks) |-> [type |-> checks[i], numEvalsRequired |-> maxBadAttempts] ]
    \o << [type |-> "strict", numEvalsRequired |-> maxBadAttempts] >>

\* variant: spent entries stay in the list
KeepSpentMetrics(metrics, t) ==
  [ i \in DOMAIN metrics |->
      IF metrics[i].type = t
      THEN [metrics[i] EXCEPT !.numEvalsRequired = @ - 1]
      ELSE metrics[i] ]

\* the metric list after a failed evaluation of type t: map, then filter
DecrementMetrics(metrics, t) ==
  SelectSeq(
    [ i \in DOMAIN metrics |->
        IF metrics[i].type = t
        THEN [metrics[i] EXCEPT !.numEvalsRequired = @ - 1]
        ELSE metrics[i] ],
    LAMBDA e : e.numEvalsRequired > 0)

\* check types handed to evaluateAnswer
PendingTypes(metrics) ==
  { metrics[i].type : i \in { j \in DOMAIN metrics : metrics[j].numEvalsRequired > 0 } }

SetMetrics(m, q, v) == [ x \in DOMAIN m \cup {q} |-> IF x = q THEN v ELSE m[x] ]

\* objects the model may emit: an action and its payload
GenObjects ==
  [action : {"answer"}, arg : {TextPayload, NoPayload}] \cup
  [action : {"reflect"}, arg : ReflectProposals \cup {NoPayload}] \cup
  [action : {"search"}, arg : {SomePayload, NoPayload}] \cup
  [action : {"visit", "coding"}, arg : {SomePayload, NoPayload}]

MkStep(obj) ==
  [action |-> obj.action, arg |-> obj.arg, references |-> <<>>,
   isFinal |-> FALSE, isAggregated |-> FALSE]

\* variant: beast mode leaves the step as generated
BeastStepUnmarked(obj) == MkStep(obj)

\* the step beast mode builds from the generated object
BeastStep(obj) == [MkStep(obj) EXCEPT !.isFinal = TRUE]

\* the treatment the final answer gets before it is returned
Treatment(trivial, aggregated) ==
  IF trivial THEN "markdown-only"
  ELSE IF ~aggregated THEN "pipeline"
  ELSE "aggregated"

\* withImages: boolean = false, the default the sessions run with
withImages == FALSE

\* variant: the links are repaired before the code blocks
LinksFirstSteps(treatment, images) ==
  IF treatment = "markdown-only" THEN << "buildMdFromAnswer" >>
  ELSE IF treatment = "pipeline"
       THEN << "finalizeAnswer", "repairMarkdownFootnotesOuter", "fixBadURLMdLinks",
               "fixCodeBlockIndentation", "convertHtmlTablesToMd", "repairMarkdownFinal",
               "buildReferences", "updateReferences",
               "buildMdFromAnswer", "repairMarkdownFootnotesOuter" >>
            \o (IF images THEN << "buildImageReferences" >> ELSE <<>>)
       ELSE << "join", "buildMdFromAnswer", "repairMarkdownFootnotesOuter" >>
            \o (IF images THEN << "filterImages" >> ELSE <<>>)

\* the functions finalization applies, in the order of their application:
\* the innermost call of the nested expression first; images tells whether
\* there are images to attach
TreatmentSteps(treatment, images) ==
  IF treatment = "markdown-only" THEN << "buildMdFromAnswer" >>
  ELSE IF treatment = "pipeline"
       THEN << "finalizeAnswer", "repairMarkdownFootnotesOuter", "fixCodeBlockIndentation",
               "fixBadURLMdLinks", "convertHtmlTablesToMd", "repairMarkdownFinal",
               "buildReferences", "updateReferences",
               "buildMdFromAnswer", "repairMarkdownFootnotesOuter" >>
            \o (IF images THEN << "buildImageReferences" >> ELSE <<>>)
       ELSE << "join", "buildMdFromAnswer", "repairMarkdownFootnotesOuter" >>
            \o (IF images THEN << "filterImages" >> ELSE <<>>)

TypeOK ==
  /\ pc \in {"loop", "gen", "exec", "await", "afterLoop", "finalize", "done", "thrown"}
  /\ totalTokens \in Nat /\ step \in Nat /\ totalStep \in Nat
  /\ schema \subseteq Actions
  /\ thisStep.action \in Actions

(***************************************************************************)
(* Initial state: getResponse up to the first loop test                    *)
(***************************************************************************)
InitFrom(inputs) ==
  \E in \in inputs, nda \in BOOLEAN, ts \in TeamSizes, used \in InitialUsages :
    /\ pc = "loop"
    /\ question = ExtractQuestion(in)
    /\ noDirectAnswer = nda
    /\ teamSize = ts
    /\ questionChecks = in.checks
    /\ totalTokens = used
    /\ step = 0 /\ totalStep = 0
    /\ gaps = << ExtractQuestion(in) >>
    /\ allQuestions = << ExtractQuestion(in) >>
    /\ allKnowledge = <<>>
    /\ diaryContext = <<>>
    /\ allowAnswer = TRUE /\ allowSearch = TRUE /\ allowRead = TRUE
    /\ allowReflect = TRUE /\ allowCoding = FALSE
    /\ schema = getAgentSchema(TRUE, TRUE, TRUE, TRUE, TRUE)
    /\ thisStep = [action |-> "answer", arg |-> NoPayload, references |-> <<>>,
                   isFinal |-> FALSE, isAggregated |-> FALSE]
    /\ currentQuestion = <<>>
    /\ evaluationMetrics = [ x \in {} |-> <<>> ]
    /\ finalAnswerPIP = 0
    /\ trivialQuestion = FALSE
    /\ allURLs = in.urls
    /\ visitedURLs = 0
    /\ weightedURLs = 0
    /\ urlList = 0
    /\ invoked = {}
    /\ finalization = "none" /\ finalSteps = <<>>
    /\ allContext = 0
    /\ subproblems = <<>> /\ subproblemResponses = <<>>
    /\ searchProvider = "jina" /\ keywordsQueries = <<>> /\ searchedQueries = <<>>
    /\ error = "none"
    /\ GenIdle
    /\ EvalIdle
    /\ SessionIdle

Init == InitFrom(Inputs)

(***************************************************************************)
(* The main loop                                                           *)
(***************************************************************************)
Params == << question, noDirectAnswer, teamSize, questionChecks >>
Flags == << allowAnswer, allowSearch, allowRead, allowReflect, allowCoding >>
URLState == << allURLs, visitedURLs, weightedURLs, urlList >>
TeamState == << subproblems, subproblemResponses >>
SearchState == << searchProvider, keywordsQueries, searchedQueries >>

\* variant: the step is not recorded
ContextNotUpdated(ctx) == ctx

\* updateContext(step): allContext.push(step)
updateContext(ctx) == ctx + 1

\* variant: the diary of the failed cycle is kept
KeepDiary(diary) == diary

\* diaryContext = [] after the bad context is stored
ResetDiary(diary) == <<>>

\* gaps[totalStep % gaps.length]
RotateQuestion(g, n) == g[(n % Len(g)) + 1]

KItem(t, q) == [type |-> t, question |-> q]
WhyBad(q) == KItem("qa", <<"Why is the following answer bad for the question?">> \o q)

\* variant: the knowledge is reset together with the diary
RestartKnowledge(knowledge, q) == << WhyBad(q) >>

\* allKnowledge.push({question: 'Why is the following answer bad ..', ..})
StoreBadContext(knowledge, q) == Append(knowledge, WhyBad(q))

\* variant: reflect stays permitted however many questions are open
ReflectAlwaysHasRoom(g) == TRUE

\* gaps.length <= MAX_REFLECT_PER_STEP
ReflectHasRoom(g) == Len(g) <= MAX_REFLECT_PER_STEP

\* variant: search stays permitted however many URLs are ranked
SearchAlwaysUseful(ranked) == TRUE

\* weightedURLs.length < 50: search is disabled when too many urls already
SearchStillUseful(ranked) == ranked < MaxRankedURLsForSearch

\* variant: a sub-question gets the checks of the original question
SubQuestionChecked(checks) == InitialMetrics(checks)

\* evaluationMetrics[currentQuestion] = [] for a sub-question
SubQuestionMetrics(checks) == <<>>

\* variant: the improvement plans are left out of the prompt
composeMsgsWithoutPlans(cq, q, pip) ==
  [question |-> cq, hasPIP |-> FALSE, pip |-> 0]

\* composeMsgs(messages, allKnowledge, currentQuestion,
\*             currentQuestion === question ? finalAnswerPIP : undefined)
composeMsgs(cq, q, pip) ==
  IF cq = q THEN [question |-> cq, hasPIP |-> TRUE, pip |-> pip]
  ELSE [question |-> cq, hasPIP |-> FALSE, pip |-> 0]

\* while (totalTokens < regularBudget) .. schema = getAgentSchema(..):
\* the loop test, the counters, the choice of the current question, the
\* metric set-up, the freshness rule, the URL ranking and the schema
BeginStep ==
  /\ pc = "loop"
  /\ WithinRegularBudget(totalTokens)
  /\ step' = step + 1
  /\ totalStep' = totalStep + 1
  /\ IF gaps = <<>>
     THEN \* gaps[NaN] is undefined and currentQuestion.trim() raises a TypeError
          /\ currentQuestion' = Undefined
          /\ pc' = "thrown"
          /\ error' = "TypeError"
          /\ UNCHANGED << Params, SessionState, GenState, EvalState, TeamState, SearchState, totalTokens, gaps, allQuestions, allKnowledge,
                          diaryContext, Flags, schema, thisStep,
                          evaluationMetrics, finalAnswerPIP, trivialQuestion, allContext,
                          URLState, invoked, FinalState >>
     ELSE LET cq == RotateQuestion(gaps, totalStep + 1)
              reflect1 == allowReflect /\ ReflectHasRoom(gaps)
              metrics == IF Trim(cq) = question /\ totalStep + 1 = 1
                         THEN SetMetrics(evaluationMetrics, cq, InitialMetrics(questionChecks))
                         ELSE IF Trim(cq) # question
                              THEN SetMetrics(evaluationMetrics, cq,
                                              SubQuestionMetrics(questionChecks))
                              ELSE evaluationMetrics
              fresh == totalStep + 1 = 1 /\ includesEval(metrics[cq], "freshness")
              ranked == IF allURLs > 0
                        THEN (IF allURLs > visitedURLs THEN allURLs - visitedURLs ELSE 0)
                        ELSE weightedURLs
              answer2 == allowAnswer /\ ~fresh
              reflect2 == reflect1 /\ ~fresh
              read2 == allowRead /\ ranked > 0
              search2 == allowSearch /\ SearchStillUseful(ranked)
          IN /\ currentQuestion' = cq
             /\ evaluationMetrics' = metrics
             /\ weightedURLs' = ranked
             /\ urlList' = Min(ranked, MaxListedURLs)
             /\ allowAnswer' = answer2
             /\ allowReflect' = reflect2
             /\ allowRead' = read2
             /\ allowSearch' = search2
             /\ schema' = getAgentSchema(reflect2, read2, answer2, search2, allowCoding)
             /\ msgWithKnowledge' = composeMsgs(cq, question, finalAnswerPIP)
             /\ pc' = "gen"
             /\ UNCHANGED << Params, SessionState, GenState, evaluation, TeamState, SearchState, error, totalTokens, gaps, allQuestions, allKnowledge,
                             diaryContext, allowCoding, thisStep, finalAnswerPIP,
                             trivialQuestion, allContext, allURLs, visitedURLs, invoked, FinalState >>

\* the loop test fails: control reaches the code after the loop
ExitLoop ==
  /\ pc = "loop"
  /\ ~WithinRegularBudget(totalTokens)
  /\ pc' = "afterLoop"
  /\ UNCHANGED << Params, SessionState, GenState, EvalState, TeamState, SearchState, error, totalTokens, step, totalStep, gaps, allQuestions, allKnowledge,
                  diaryContext, Flags, schema, thisStep, currentQuestion,
                  evaluationMetrics, finalAnswerPIP, trivialQuestion, allContext, URLState,
                  invoked, FinalState >>

\* objects that validate against a schema permitting the actions in sch
Validates(obj, sch) == obj.action \in sch

\* objects handleGenerateObjectError parses out of an output the schema
\* rejected: they are returned as parsed, without validation
ManuallyParsed(sch) == { obj \in GenObjects : ~Validates(obj, sch) }

\* objects generateObject can return under a schema: those a model call
\* validated and those parsed by hand out of a rejected output
Generated(sch) == { obj \in GenObjects : Validates(obj, sch) } \cup ManuallyParsed(sch)

\* variant: the permissions are not reset after the model call
KeepPermission(flag) == flag

\* reset allow* to true
ResetPermission(flag) == TRUE

\* generator.generateObject(..) returns; thisStep is built from the object,
\* the action is tracked and the permission flags are reset
GenerateFrom(objects) ==
  /\ pc = "gen"
  /\ \E obj \in objects, cost \in TokenCosts :
       /\ thisStep' = MkStep(obj)
       /\ totalTokens' = TrackUsage(totalTokens, cost)
  /\ allowAnswer' = ResetPermission(allowAnswer)
  /\ allowReflect' = ResetPermission(allowReflect)
  /\ allowRead' = ResetPermission(allowRead)
  /\ allowSearch' = ResetPermission(allowSearch)
  /\ allowCoding' = ResetPermission(allowCoding)
  /\ pc' = "exec"
  /\ UNCHANGED << Params, SessionState, GenState, EvalState, TeamState, SearchState, error, step, totalStep, gaps, allQuestions, allKnowledge,
                  diaryContext, schema, currentQuestion, evaluationMetrics,
                  finalAnswerPIP, trivialQuestion, allContext, URLState, invoked, FinalState >>

Generate == GenerateFrom(Generated(schema))

\* every tier of generateObject failed: the error leaves getResponse
GenerateThrows ==
  /\ pc = "gen"
  /\ pc' = "thrown"
  /\ error' = "generateObject"
  /\ UNCHANGED << Params, SessionState, GenState, EvalState, TeamState, SearchState, totalTokens, step, totalStep, gaps, allQuestions,
                  allKnowledge, diaryContext, Flags, schema, thisStep,
                  currentQuestion, evaluationMetrics, finalAnswerPIP,
                  trivialQuestion, allContext, URLState, invoked, FinalState >>

(***************************************************************************)
(* The dispatch of the chosen action                                       *)
(***************************************************************************)
\* results evaluateAnswer may give for the pending check types: a pass, or
\* the failure of one of the checks it was handed
EvalResults(types) ==
  { NoEvaluation } \cup
  { e \in [pass : {FALSE}, type : types, plan : BOOLEAN] : e.plan => e.type = "strict" }

\* thisStep.action === 'answer' && thisStep.answer
ExecAnswer ==
  /\ pc = "exec"
  /\ thisStep.action = "answer" /\ thisStep.arg # NoPayload
  /\ IF IsTrivialAnswer(totalStep, noDirectAnswer)
     THEN \* trivial question: final at once, no evaluation
          /\ thisStep' = [thisStep EXCEPT !.isFinal = TRUE]
          /\ trivialQuestion' = TRUE
          /\ pc' = "afterLoop"
          /\ UNCHANGED << Params, SessionState, GenState, EvalState, TeamState, SearchState, error, totalTokens, step, totalStep, gaps, allQuestions,
                          allKnowledge, diaryContext, Flags, schema, currentQuestion,
                          evaluationMetrics, finalAnswerPIP, URLState, invoked, allContext,
                          FinalState >>
     ELSE LET metrics == evaluationMetrics[currentQuestion]
              evaluated == Len(metrics) > 0
          IN \E ev \in (IF evaluated THEN EvalResults(PendingTypes(metrics))
                                ELSE { NoEvaluation }) :
               /\ evaluation' = ev
               /\ allContext' = updateContext(allContext)
               /\ invoked' = IF evaluated THEN invoked \cup {"evaluateAnswer"} ELSE invoked
               /\ IF Trim(currentQuestion) = question
                  THEN /\ allowCoding' = FALSE
                       /\ IF ev.pass
                          THEN /\ diaryContext' = Append(diaryContext, "answer-good")
                               /\ thisStep' = [thisStep EXCEPT !.isFinal = TRUE]
                               /\ pc' = "afterLoop"
                               /\ UNCHANGED << step, allKnowledge, allowAnswer,
                                               evaluationMetrics, finalAnswerPIP >>
                          ELSE LET left == DecrementMetrics(metrics, ev.type)
                               IN /\ evaluationMetrics' =
                                       [evaluationMetrics EXCEPT ![currentQuestion] = left]
                                  /\ finalAnswerPIP' =
                                       IF ev.type = "strict" /\ ev.plan
                                       THEN finalAnswerPIP + 1 ELSE finalAnswerPIP
                                  /\ IF MetricsExhausted(left)
                                     THEN /\ thisStep' = [thisStep EXCEPT !.isFinal = FALSE]
                                          /\ pc' = "afterLoop"
                                          /\ UNCHANGED << step, allKnowledge, diaryContext,
                                                          allowAnswer >>
                                     ELSE /\ allKnowledge' =
                                               StoreBadContext(allKnowledge, currentQuestion)
                                          /\ allowAnswer' = FALSE
                                          /\ diaryContext' = ResetDiary(diaryContext)
                                          /\ step' = 0
                                          /\ pc' = "loop"
                                          /\ UNCHANGED thisStep
                       /\ UNCHANGED gaps
                  ELSE IF ev.pass
                  THEN \* a sub-question is solved
                       /\ diaryContext' = Append(diaryContext, "sub-answer-good")
                       /\ allKnowledge' = Append(allKnowledge, KItem("qa", currentQuestion))
                       /\ gaps' = SpliceGap(gaps, currentQuestion)
                       /\ pc' = "loop"
                       /\ UNCHANGED << step, thisStep, allowAnswer, allowCoding,
                                       evaluationMetrics, finalAnswerPIP >>
                  ELSE \* a sub-question's answer failed: it stays in gaps
                       /\ pc' = "loop"
                       /\ UNCHANGED << step, thisStep, allowAnswer, allowCoding, gaps,
                                       allKnowledge, diaryContext,
                                       evaluationMetrics, finalAnswerPIP >>
               /\ UNCHANGED << Params, SessionState, GenState, msgWithKnowledge, TeamState, SearchState, error, totalTokens, totalStep, allQuestions,
                               allowSearch, allowRead, allowReflect, schema,
                               currentQuestion, trivialQuestion, URLState, FinalState >>

\* thisStep.action === 'reflect' && thisStep.questionsToAnswer
ExecReflect ==
  /\ pc = "exec"
  /\ thisStep.action = "reflect" /\ thisStep.arg # NoPayload
  /\ LET newGapQuestions ==
           chooseK(dedupQueries(thisStep.arg, allQuestions), MAX_REFLECT_PER_STEP)
     IN /\ thisStep' = [thisStep EXCEPT !.arg = newGapQuestions]
        /\ IF Len(newGapQuestions) > 0
           THEN /\ diaryContext' = Append(diaryContext, "reflect-new")
                /\ gaps' = gaps \o newGapQuestions
                /\ allQuestions' = allQuestions \o newGapQuestions
           ELSE /\ diaryContext' = Append(diaryContext, "reflect-asked-before")
                /\ UNCHANGED << gaps, allQuestions >>
  /\ allContext' = updateContext(allContext)
  /\ allowReflect' = FALSE
  /\ invoked' = invoked \cup {"dedupQueries"}
  /\ pc' = "loop"
  /\ UNCHANGED << Params, SessionState, GenState, EvalState, TeamState, SearchState, error, totalTokens, step, totalStep, allKnowledge, allowAnswer,
                  allowSearch, allowRead, allowCoding, schema, currentQuestion,
                  evaluationMetrics, finalAnswerPIP, trivialQuestion, URLState,
                  FinalState >>

\* variant: only search is disabled after a search step
SearchCooldownKeepsAnswer == [search |-> FALSE, answer |-> TRUE]

\* allowSearch = false; allowAnswer = false at the end of a search step
SearchCooldown == [search |-> FALSE, answer |-> FALSE]

\* knowledge items a batch of executeSearchQueries returns when n of its
\* queries had results
SearchKnowledge(n) == [ i \in 1 .. n |-> KItem("side-info", <<"search">>) ]

\* thisStep.action === 'search' && thisStep.searchRequests, without the
\* team-mode short circuit: both batches of queries, the optional single
\* sub-problem of the planner, the diary entry and the cooldown
ExecSearch ==
  /\ pc = "exec"
  /\ thisStep.action = "search" /\ thisStep.arg # NoPayload
  /\ \E out \in SearchOutcomes :
       /\ allKnowledge' = allKnowledge \o SearchKnowledge(out[1]) \o SearchKnowledge(out[2])
       /\ allURLs' = allURLs + out[1] + out[2]
       /\ diaryContext' = Append(diaryContext,
                                 IF out[2] > 0 THEN "search-found" ELSE "search-nothing")
  /\ IF teamSize > 1
     THEN \E plan \in { p \in PlannerResults : Len(p) = 1 } :
            gaps' = Append(gaps, plan[1])
     ELSE UNCHANGED gaps
  /\ allContext' = updateContext(allContext)
  /\ allowSearch' = SearchCooldown.search
  /\ allowAnswer' = SearchCooldown.answer
  /\ invoked' = invoked \cup {"search"}
  /\ pc' = "loop"
  /\ UNCHANGED << Params, SessionState, GenState, EvalState, TeamState, SearchState, error, totalTokens, step, totalStep, allQuestions, allowRead,
                  allowReflect, allowCoding, schema, thisStep, currentQuestion,
                  evaluationMetrics, finalAnswerPIP, trivialQuestion, visitedURLs,
                  weightedURLs, urlList, FinalState >>

\* the errors that leave the search branch, which has no try/catch: the one
\* executeSearchQueries throws for a 401 of a selected Jina or arXiv provider,
\* and those dedupQueries, researchPlan and rewriteQuery raise
SearchBranchErrors(provider, team) ==
  (IF provider \in {"jina", "arxiv"} THEN {"Unauthorized Jina API key"} ELSE {})
    \cup {"dedupQueries", "rewriteQuery"}
    \cup (IF team > 1 THEN {"researchPlan"} ELSE {})

\* an awaited call of the search branch rejects: the error leaves getResponse
ExecSearchThrows ==
  /\ pc = "exec"
  /\ thisStep.action = "search" /\ thisStep.arg # NoPayload
  /\ \E e \in SearchBranchErrors(searchProvider, teamSize) : error' = e
  /\ pc' = "thrown"
  /\ UNCHANGED << Params, SessionState, GenState, EvalState, TeamState, SearchState, totalTokens, step, totalStep, gaps,
                  allQuestions, allKnowledge, diaryContext, Flags, schema, thisStep,
                  currentQuestion, evaluationMetrics, finalAnswerPIP, trivialQuestion,
                  allContext, URLState, invoked, FinalState >>

\* a sub-session that was started and has not settled
Running == [state |-> "running", answer |-> <<>>, mdAnswer |-> <<>>, references |-> <<>>]

\* buildMdFromAnswer: the answer followed by the footnotes of its references
buildMdFromAnswer(answer, references) ==
  IF references = <<>> THEN answer ELSE Append(answer, <<"footnotes">>)

\* what the sub-session of the k-th sub-problem q may return: an answer with
\* references (one of them without URL), or an empty answer
SubResults(k, q) ==
  LET refs == << [url |-> U1, from |-> k], [url |-> Undefined, from |-> k] >>
      answer == << <<"answer">> \o q >>
  IN { [state |-> "returned", answer |-> answer,
        mdAnswer |-> buildMdFromAnswer(answer, refs), references |-> refs],
       [state |-> "returned", answer |-> <<>>,
        mdAnswer |-> buildMdFromAnswer(<<>>, <<>>), references |-> <<>>] }

\* Array.prototype.join('\n\n') of a list of answers
RECURSIVE Join(_)
Join(list) ==
  IF list = <<>> THEN <<>>
  ELSE IF Len(list) = 1 THEN list[1]
       ELSE list[1] \o << <<"\n\n">> >> \o Join(Tail(list))

\* Array.prototype.flat of a list of lists
RECURSIVE Flat(_)
Flat(lists) == IF lists = <<>> THEN <<>> ELSE Head(lists) \o Flat(Tail(lists))

\* variant: the references are merged as they come
FlatReferences(references) == references

\* the first reference of every URL, the references without URL dropped
DedupByURL(references) ==
  LET withURL == SelectSeq(references, LAMBDA r : r.url # Undefined)
      uniqueURLs == Unique([ i \in DOMAIN withURL |-> withURL[i].url ])
  IN [ i \in DOMAIN uniqueURLs |->
         withURL[CHOOSE j \in DOMAIN withURL :
                   /\ withURL[j].url = uniqueURLs[i]
                   /\ \A h \in 1 .. (j - 1) : withURL[h].url # uniqueURLs[i]] ]

\* Promise.all resolves: every sub-session has returned
AllReturned(responses) == \A k \in DOMAIN responses : responses[k].state = "returned"

\* subproblemResponses.map(r => r.result.mdAnswer).filter(a => a)
candidateAnswers(responses) ==
  SelectSeq([ k \in DOMAIN responses |-> responses[k].mdAnswer ], LAMBDA a : a # <<>>)

\* the search step of a team session whose planner returns several
\* sub-problems: getResponse is called once per sub-problem, in the order of
\* the sub-problems and before the parent awaits, so that all the
\* sub-sessions are in flight together
ExecSearchTeam ==
  /\ pc = "exec"
  /\ thisStep.action = "search" /\ thisStep.arg # NoPayload
  /\ teamSize > 1
  /\ \E out \in SearchOutcomes, plan \in { p \in PlannerResults : Len(p) > 1 } :
       /\ allKnowledge' = allKnowledge \o SearchKnowledge(out[1])
       /\ allURLs' = allURLs + out[1]
       /\ subproblems' = plan
       /\ subproblemResponses' = [ k \in DOMAIN plan |-> Running ]
  /\ invoked' = invoked \cup {"search", "getResponse"}
  /\ pc' = "await"
  /\ UNCHANGED << Params, SessionState, GenState, EvalState, SearchState, error, totalTokens, step, totalStep, gaps,
                  allQuestions, diaryContext, Flags, schema, thisStep, currentQuestion, evaluationMetrics,
                  finalAnswerPIP, trivialQuestion, allContext, visitedURLs, weightedURLs,
                  urlList, FinalState >>

\* what the parent leaves alone while it awaits its sub-sessions
AwaitFrame ==
  UNCHANGED << Params, SessionState, GenState, EvalState, SearchState, subproblems, step, totalStep, gaps, allQuestions, allKnowledge,
               diaryContext, Flags, schema, currentQuestion, evaluationMetrics,
               finalAnswerPIP, trivialQuestion, allContext, URLState, invoked,
               FinalState >>

\* one of the sub-sessions returns its final answer, having recorded its
\* usage on the tracker it shares with the parent
SubSessionReturns ==
  /\ pc = "await"
  /\ \E k \in DOMAIN subproblemResponses :
       /\ subproblemResponses[k].state = "running"
       /\ \E r \in SubResults(k, subproblems[k]), cost \in TokenCosts :
            /\ subproblemResponses' = [subproblemResponses EXCEPT ![k] = r]
            /\ totalTokens' = TrackUsage(totalTokens, cost)
  /\ UNCHANGED << pc, thisStep, error >>
  /\ AwaitFrame

\* one of the sub-sessions throws: Promise.all rejects and the error leaves
\* the parent, whatever the other sub-sessions are doing
SubSessionThrows ==
  /\ pc = "await"
  /\ \E k \in DOMAIN subproblemResponses : subproblemResponses[k].state = "running"
  /\ pc' = "thrown"
  /\ error' = "sub-session"
  /\ UNCHANGED << subproblemResponses, totalTokens, thisStep >>
  /\ AwaitFrame

\* Promise.all resolves: the step becomes the final aggregated answer and the
\* loop is left
AggregateTeam ==
  /\ pc = "await"
  /\ AllReturned(subproblemResponses)
  /\ thisStep' =
       [action |-> "answer",
        arg |-> Join([ k \in DOMAIN subproblemResponses |-> subproblemResponses[k].answer ]),
        references |->
          DedupByURL(Flat([ k \in DOMAIN subproblemResponses |->
                              subproblemResponses[k].references ])),
        isFinal |-> TRUE, isAggregated |-> TRUE]
  /\ pc' = "afterLoop"
  /\ UNCHANGED << subproblemResponses, totalTokens, error >>
  /\ AwaitFrame

\* thisStep.action === 'visit' && thisStep.URLTargets?.length && urlList?.length
ExecVisit ==
  /\ pc = "exec"
  /\ thisStep.action = "visit" /\ thisStep.arg # NoPayload /\ urlList > 0
  /\ \E success \in BOOLEAN :
       /\ diaryContext' = Append(diaryContext,
                                 IF success THEN "visit-read" ELSE "visit-failed")
       /\ allKnowledge' = IF success THEN Append(allKnowledge, KItem("url", <<"visit">>))
                          ELSE allKnowledge
  /\ visitedURLs' = visitedURLs + Min(weightedURLs, MAX_URLS_PER_STEP)
  /\ allContext' = updateContext(allContext)
  /\ allowRead' = FALSE
  /\ invoked' = invoked \cup {"visit"}
  /\ pc' = "loop"
  /\ UNCHANGED << Params, SessionState, GenState, EvalState, TeamState, SearchState, error, totalTokens, step, totalStep, gaps, allQuestions,
                  allowAnswer, allowSearch, allowReflect, allowCoding, schema,
                  thisStep, currentQuestion, evaluationMetrics, finalAnswerPIP,
                  trivialQuestion, allURLs, weightedURLs, urlList, FinalState >>

\* thisStep.action === 'coding' && thisStep.codingIssue
ExecCoding ==
  /\ pc = "exec"
  /\ thisStep.action = "coding" /\ thisStep.arg # NoPayload
  /\ \E solved \in BOOLEAN :
       /\ diaryContext' = Append(diaryContext,
                                 IF solved THEN "coding-solved" ELSE "coding-failed")
       /\ allKnowledge' = IF solved THEN Append(allKnowledge, KItem("coding", <<"coding">>))
                          ELSE allKnowledge
  /\ allContext' = updateContext(allContext)
  /\ allowCoding' = FALSE
  /\ invoked' = invoked \cup {"coding"}
  /\ pc' = "loop"
  /\ UNCHANGED << Params, SessionState, GenState, EvalState, TeamState, SearchState, error, totalTokens, step, totalStep, gaps, allQuestions,
                  allowAnswer, allowSearch, allowRead, allowReflect, schema,
                  thisStep, currentQuestion, evaluationMetrics, finalAnswerPIP,
                  trivialQuestion, URLState, FinalState >>

\* no branch of the dispatch matches (an empty answer, no targets, no URL
\* list, an empty coding issue): the step ends with the flags as reset
ExecNothing ==
  /\ pc = "exec"
  /\ \/ thisStep.arg = NoPayload
     \/ thisStep.action = "visit" /\ urlList = 0
  /\ pc' = "loop"
  /\ UNCHANGED << Params, SessionState, GenState, EvalState, TeamState, SearchState, error, totalTokens, step, totalStep, gaps, allQuestions,
                  allKnowledge, diaryContext, Flags, schema, thisStep,
                  currentQuestion, evaluationMetrics, finalAnswerPIP,
                  trivialQuestion, allContext, URLState, invoked, FinalState >>

(***************************************************************************)
(* After the loop                                                          *)
(***************************************************************************)
\* if (!thisStep.isFinal): one more generation with only answer permitted;
\* the result is marked final
BeastMode ==
  /\ pc = "afterLoop"
  /\ EntersBeastMode(thisStep)
  /\ step' = step + 1
  /\ totalStep' = totalStep + 1
  /\ schema' = getAgentSchema(FALSE, FALSE, TRUE, FALSE, FALSE)
  /\ \E obj \in Generated(getAgentSchema(FALSE, FALSE, TRUE, FALSE, FALSE)),
        cost \in TokenCosts, returns \in BOOLEAN :
       IF returns
       THEN /\ thisStep' = BeastStep(obj)
            /\ totalTokens' = TrackUsage(totalTokens, cost)
            /\ pc' = "finalize"
            /\ UNCHANGED error
       ELSE /\ pc' = "thrown"
            /\ error' = "generateObject"
            /\ UNCHANGED << thisStep, totalTokens >>
  /\ msgWithKnowledge' = composeMsgs(question, question, finalAnswerPIP)
  /\ invoked' = invoked \cup {"beastMode"}
  /\ UNCHANGED << Params, SessionState, GenState, evaluation, TeamState, SearchState, gaps, allQuestions, allKnowledge,
                  diaryContext, Flags, currentQuestion, evaluationMetrics, finalAnswerPIP,
                  trivialQuestion, allContext, URLState, FinalState >>

\* the treatment of the final answer and the return
Finalize ==
  /\ \/ pc = "afterLoop" /\ ~EntersBeastMode(thisStep)
     \/ pc = "finalize"
  /\ finalization' = Treatment(trivialQuestion, thisStep.isAggregated)
  /\ finalSteps' = TreatmentSteps(Treatment(trivialQuestion, thisStep.isAggregated), withImages)
  /\ thisStep' = IF ~trivialQuestion /\ thisStep.isAggregated
                 THEN [thisStep EXCEPT !.arg = Join(candidateAnswers(subproblemResponses))]
                 ELSE thisStep
  /\ pc' = "done"
  /\ UNCHANGED << Params, SessionState, GenState, EvalState, TeamState, SearchState, error, totalTokens, step, totalStep, gaps, allQuestions,
                  allKnowledge, diaryContext, Flags, schema,
                  currentQuestion, evaluationMetrics, finalAnswerPIP,
                  trivialQuestion, allContext, URLState, invoked >>

Next ==
  \/ BeginStep
  \/ ExitLoop
  \/ Generate
  \/ GenerateThrows
  \/ ExecAnswer
  \/ ExecReflect
  \/ ExecSearch
  \/ ExecSearchThrows
  \/ ExecSearchTeam
  \/ SubSessionReturns
  \/ SubSessionThrows
  \/ AggregateTeam
  \/ ExecVisit
  \/ ExecCoding
  \/ ExecNothing
  \/ BeastMode
  \/ Finalize

Spec == Init /\ [][Next]_vars

(***************************************************************************)
(* The agent schema as a validator.  A candidate object is described by    *)
(* its action, the key of the sub-object it carries and the size of that   *)
(* sub-object's payload (items of a list, characters of a string).  The    *)
(* variables schema, thisStep, pc and the permission flags hold the        *)
(* schema built, the candidate and the verdict.                            *)
(***************************************************************************)
PayloadSizes == {0, 2, 3, 5, 6, 500, 501}
NoKey == "none"
Candidates == [action : Actions, key : Actions \cup {NoKey}, size : PayloadSizes]

\* variant: the limit of a query's length is taken for the limit of the list
SubSchemaAcceptsLong(a, n) ==
  CASE a = "search" -> n <= 30
    [] a = "coding" -> n <= MaxCodingIssueLength
    [] a = "answer" -> TRUE
    [] a = "reflect" -> n <= MAX_REFLECT_PER_STEP
    [] a = "visit" -> n <= MAX_URLS_PER_STEP

\* the sub-schema of action a accepts a payload of size n
SubSchemaAccepts(a, n) ==
  CASE a = "search" -> n <= MAX_QUERIES_PER_STEP
    [] a = "coding" -> n <= MaxCodingIssueLength
    [] a = "answer" -> TRUE
    [] a = "reflect" -> n <= MAX_REFLECT_PER_STEP
    [] a = "visit" -> n <= MAX_URLS_PER_STEP

\* variant: an enum without values accepts every value
EnumAcceptsWhenEmpty(sch, a) == sch = {} \/ a \in sch

\* action: z.enum(Object.keys(actionSchemas))
EnumAccepts(sch, a) == a \in sch

\* z.object({think, action, ...actionSchemas}).parse: the action is one of
\* the enum, a sub-object under a key of the schema satisfies its sub-schema,
\* a sub-object under any other key is stripped
SchemaAccepts(sch, o) ==
  /\ EnumAccepts(sch, o.action)
  /\ o.key \in sch => SubSchemaAccepts(o.key, o.size)

SchemaInit ==
  /\ pc = "schema"
  /\ question = <<"q">> /\ noDirectAnswer = FALSE /\ teamSize = 1
  /\ questionChecks = <<>>
  /\ totalTokens = 0 /\ step = 0 /\ totalStep = 0
  /\ gaps = << <<"q">> >> /\ allQuestions = << <<"q">> >>
  /\ allKnowledge = <<>> /\ diaryContext = <<>>
  /\ allowAnswer = TRUE /\ allowSearch = TRUE /\ allowRead = TRUE
  /\ allowReflect = TRUE /\ allowCoding = FALSE
  /\ schema = getAgentSchema(TRUE, TRUE, TRUE, TRUE, TRUE)
  /\ thisStep = [action |-> "answer", key |-> NoKey, size |-> 0]
  /\ currentQuestion = <<>>
  /\ evaluationMetrics = [ x \in {} |-> <<>> ]
  /\ finalAnswerPIP = 0 /\ trivialQuestion = FALSE
  /\ allURLs = 0 /\ visitedURLs = 0 /\ weightedURLs = 0 /\ urlList = 0
  /\ invoked = {} /\ finalization = "none" /\ finalSteps = <<>> /\ allContext = 0
    /\ subproblems = <<>> /\ subproblemResponses = <<>>
    /\ searchProvider = "jina" /\ keywordsQueries = <<>> /\ searchedQueries = <<>>
    /\ error = "none"
    /\ GenIdle
    /\ EvalIdle
    /\ SessionIdle

SchemaFrame ==
  UNCHANGED << Params, SessionState, GenState, EvalState, TeamState, SearchState, error, totalTokens, step, totalStep, gaps, allQuestions, allKnowledge,
               diaryContext, currentQuestion, evaluationMetrics, finalAnswerPIP,
               trivialQuestion, allContext, URLState, invoked, FinalState >>

\* getAgentSchema is called with some combination of the five flags
BuildSchema ==
  /\ pc = "schema"
  /\ \E reflect \in BOOLEAN, read \in BOOLEAN, answer \in BOOLEAN,
        search \in BOOLEAN, coding \in BOOLEAN :
       /\ allowReflect' = reflect /\ allowRead' = read /\ allowAnswer' = answer
       /\ allowSearch' = search /\ allowCoding' = coding
       /\ schema' = getAgentSchema(reflect, read, answer, search, coding)
  /\ pc' = "parse"
  /\ UNCHANGED thisStep
  /\ SchemaFrame

\* a candidate object is parsed against the schema
ParseCandidate ==
  /\ pc = "parse"
  /\ \E o \in Candidates :
       /\ thisStep' = o
       /\ pc' = IF SchemaAccepts(schema, o) THEN "accepted" ELSE "rejected"
  /\ UNCHANGED << Flags, schema >>
  /\ SchemaFrame

SchemaNext == BuildSchema \/ ParseCandidate

SchemaSpec == SchemaInit /\ [][SchemaNext]_vars

(***************************************************************************)
(* The visit branch on the contents of the URL collections.  The main      *)
(* specification keeps the sizes of weightedURLs, urlList and visitedURLs; *)
(* here they hold the URLs themselves, and the payload of the visit step   *)
(* is its list of indices, replaced by the list of URLs to read.           *)
(***************************************************************************)

MaxIndex == 4
\* ranked lists with the order in which the prompt lists them
ListedURLs ==
  { [weighted |-> <<U1>>, listed |-> <<U1>>],
    [weighted |-> <<U1, U2>>, listed |-> <<U2, U1>>],
    [weighted |-> <<U1, U2, U3Slash>>, listed |-> <<U1, U2, U3Slash>>],
    [weighted |-> <<U3Slash, U1, U2>>, listed |-> <<U2, U3Slash, U1>>],
    [weighted |-> <<U1, U2, U3Slash, U4, U5, U6>>,
     listed |-> <<U6, U5, U4, U3Slash, U2, U1>>],
    [weighted |-> <<>>, listed |-> <<>>] }
VisitedLists == { <<>>, <<U1>>, <<U3>>, <<U2, U3>> }
IndexLists ==
  { <<>> } \cup { <<i>> : i \in 0 .. MaxIndex }
    \cup { <<i, j>> : i \in 0 .. MaxIndex, j \in 0 .. MaxIndex }

\* normalizeUrl: nothing for a missing URL, a trailing slash dropped
normalizeUrl(u) ==
  IF u = Undefined THEN Undefined
  ELSE IF u[Len(u)] = "/" THEN SubSeq(u, 1, Len(u) - 1) ELSE u

\* variant: the index is taken as 0-based
ElementAtZeroBased(list, idx) ==
  IF idx + 1 \in DOMAIN list THEN list[idx + 1] ELSE Undefined

\* urlList[idx - 1]
ElementAt(list, idx) == IF idx \in DOMAIN list THEN list[idx] ELSE Undefined

\* URLTargets.map(idx => normalizeUrl(urlList[idx - 1]))
\*           .filter(url => url && !visitedURLs.includes(url))
ResolveTargets(targets, list, visited) ==
  SelectSeq([ i \in DOMAIN targets |-> normalizeUrl(ElementAt(list, targets[i])) ],
            LAMBDA url : url # Undefined /\ url \notin Range(visited))

\* variant: the ranked URLs come first
MergeRankedFirst(resolved, weighted) ==
  LET all == Unique(weighted \o resolved)
  IN SubSeq(all, 1, Min(Len(all), MAX_URLS_PER_STEP))

\* [...new Set([...URLTargets, ...weightedURLs.map(r => r.url)])].slice(0, MAX_URLS_PER_STEP)
MergeTargets(resolved, weighted) ==
  LET all == Unique(resolved \o weighted)
  IN SubSeq(all, 1, Min(Len(all), MAX_URLS_PER_STEP))

VisitInit ==
  \E l \in ListedURLs, v \in VisitedLists, idx \in IndexLists :
    \* filterURLs leaves the visited URLs out of the ranked list
    /\ Range(l.weighted) \cap Range(v) = {}
    /\ pc = "exec"
    /\ question = <<"q">> /\ noDirectAnswer = FALSE /\ teamSize = 1
    /\ questionChecks = <<>>
    /\ totalTokens = 1 /\ step = 1 /\ totalStep = 1
    /\ gaps = << <<"q">> >> /\ allQuestions = << <<"q">> >>
    /\ allKnowledge = <<>> /\ diaryContext = <<>>
    /\ allowAnswer = TRUE /\ allowSearch = TRUE /\ allowRead = TRUE
    /\ allowReflect = TRUE /\ allowCoding = TRUE
    /\ schema = getAgentSchema(TRUE, l.listed # <<>>, TRUE, TRUE, FALSE)
    /\ thisStep = [action |-> "visit", arg |-> idx, isFinal |-> FALSE,
                   isAggregated |-> FALSE]
    /\ currentQuestion = <<"q">>
    /\ evaluationMetrics = [ x \in { <<"q">> } |-> InitialMetrics(<<>>) ]
    /\ finalAnswerPIP = 0 /\ trivialQuestion = FALSE
    /\ allURLs = Len(l.weighted) + Len(v)
    /\ visitedURLs = v /\ weightedURLs = l.weighted /\ urlList = l.listed
    /\ invoked = {} /\ finalization = "none" /\ finalSteps = <<>> /\ allContext = 0
    /\ subproblems = <<>> /\ subproblemResponses = <<>>
    /\ searchProvider = "jina" /\ keywordsQueries = <<>> /\ searchedQueries = <<>>
    /\ error = "none"
    /\ GenIdle
    /\ EvalIdle
    /\ SessionIdle

VisitFrame ==
  UNCHANGED << Params, SessionState, GenState, EvalState, TeamState, SearchState, error, totalTokens, step, totalStep, gaps, allQuestions,
               allowAnswer, allowSearch, allowReflect, allowCoding, schema,
               currentQuestion, evaluationMetrics, finalAnswerPIP,
               trivialQuestion, allURLs, weightedURLs, urlList, FinalState >>

\* the visit branch: the indices are resolved against the URL list of the
\* step, the top ranked URLs are merged in, the URLs are read (which records
\* them as visited) and read is disabled for the next step
VisitURLs ==
  /\ pc = "exec"
  /\ thisStep.action = "visit" /\ Len(thisStep.arg) > 0 /\ Len(urlList) > 0
  /\ LET uniqueURLs == MergeTargets(ResolveTargets(thisStep.arg, urlList, visitedURLs),
                                    [ i \in DOMAIN weightedURLs |-> weightedURLs[i] ])
     IN /\ thisStep' = [thisStep EXCEPT !.arg = uniqueURLs]
        /\ IF Len(uniqueURLs) > 0
           THEN /\ visitedURLs' = visitedURLs \o uniqueURLs
                /\ \E success \in BOOLEAN :
                     /\ diaryContext' = Append(diaryContext,
                                               IF success THEN "visit-read" ELSE "visit-failed")
                     /\ allKnowledge' =
                          IF success THEN Append(allKnowledge, KItem("url", <<"visit">>))
                          ELSE allKnowledge
           ELSE /\ diaryContext' = Append(diaryContext, "visit-nothing-new")
                /\ UNCHANGED << visitedURLs, allKnowledge >>
  /\ allContext' = updateContext(allContext)
  /\ allowRead' = FALSE
  /\ invoked' = invoked \cup {"visit"}
  /\ pc' = "loop"
  /\ VisitFrame

\* a visit without targets, or with no URL list: no branch runs
VisitSkipped ==
  /\ pc = "exec"
  /\ thisStep.action = "visit" /\ (Len(thisStep.arg) = 0 \/ Len(urlList) = 0)
  /\ pc' = "loop"
  /\ UNCHANGED << thisStep, visitedURLs, allKnowledge, diaryContext, allowRead, invoked,
                  allContext >>
  /\ VisitFrame

VisitNext == VisitURLs \/ VisitSkipped

VisitSpec == VisitInit /\ [][VisitNext]_vars

(***************************************************************************)
(* executeSearchQueries: the loop over the queries of one batch.  Every    *)
(* query comes with the response the provider will give to it.  Here       *)
(* allKnowledge is the newKnowledge list of the call and allURLs grows by  *)
(* one for every query that has results.                                   *)
(***************************************************************************)
NoProvider == "undefined"
\* the provider of the configuration
SEARCH_PROVIDER == "jina"
Providers == {NoProvider, "jina", "arxiv", "duck"}
\* results, an empty result list, an error other than a 401, a 401
Responses == {"results", "empty", "failure", "unauthorized"}
MaxQueries == 3
Digits == <<"1", "2", "3", "4", "5">>
QueryLists ==
  UNION { { [ i \in 1 .. n |-> [q |-> <<"q", Digits[i]>>, response |-> f[i]] ] :
            f \in [1 .. n -> Responses] } : n \in 1 .. MaxQueries }

\* switch (searchProvider || SEARCH_PROVIDER)
EffectiveProvider(provider) == IF provider # NoProvider THEN provider ELSE SEARCH_PROVIDER

\* error.response?.status === 401 && (searchProvider === 'jina' || searchProvider === 'arxiv')
IsUnauthorized(response, provider) ==
  response = "unauthorized" /\ provider \in {"jina", "arxiv"}

SearchInit ==
  \E provider \in Providers, queries \in QueryLists :
    /\ pc = "query"
    /\ searchProvider = provider
    /\ keywordsQueries = queries
    /\ searchedQueries = <<>>
    /\ allKnowledge = <<>>
    /\ error = "none"
    /\ GenIdle
    /\ EvalIdle
    /\ SessionIdle
    /\ question = <<"q">> /\ noDirectAnswer = FALSE /\ teamSize = 1 /\ questionChecks = <<>>
    /\ totalTokens = 0 /\ step = 1 /\ totalStep = 1
    /\ gaps = << <<"q">> >> /\ allQuestions = << <<"q">> >>
    /\ diaryContext = <<>>
    /\ allowAnswer = TRUE /\ allowSearch = TRUE /\ allowRead = TRUE
    /\ allowReflect = TRUE /\ allowCoding = TRUE
    /\ schema = getAgentSchema(TRUE, TRUE, TRUE, TRUE, TRUE)
    /\ thisStep = [MkStep([action |-> "search", arg |-> SomePayload]) EXCEPT !.arg = SomePayload]
    /\ currentQuestion = <<"q">>
    /\ evaluationMetrics = [ x \in { <<"q">> } |-> InitialMetrics(<<>>) ]
    /\ finalAnswerPIP = 0 /\ trivialQuestion = FALSE
    /\ allURLs = 0 /\ visitedURLs = 0 /\ weightedURLs = 0 /\ urlList = 0
    /\ invoked = {} /\ finalization = "none" /\ finalSteps = <<>> /\ allContext = 0
    /\ subproblems = <<>> /\ subproblemResponses = <<>>

SearchFrame ==
  UNCHANGED << Params, SessionState, GenState, EvalState, TeamState, searchProvider, totalTokens, step, totalStep, gaps,
               allQuestions, diaryContext, Flags, schema, thisStep, currentQuestion,
               evaluationMetrics, finalAnswerPIP, trivialQuestion, allContext,
               visitedURLs, weightedURLs, urlList, FinalState >>

\* variant: the side-info item is pushed after a successful clustering only
ClusteredKnowledge(clustered, q) ==
  IF clustered THEN << KItem("url", q), KItem("side-info", q) >> ELSE <<>>

\* what a query with results adds to newKnowledge: the clusters serpCluster
\* gives, none when it throws, and in either case (finally) one side-info item
QueryKnowledge(clustered, q) ==
  (IF clustered THEN << KItem("url", q) >> ELSE <<>>) \o << KItem("side-info", q) >>

\* the query has results: they are added to the registry, the query is
\* listed as searched, the clusters (if serpCluster succeeds) and one
\* side-info item are added to the knowledge of the call
SearchQueryFound ==
  /\ pc = "query" /\ keywordsQueries # <<>>
  /\ LET query == Head(keywordsQueries)
     IN /\ query.response = "results"
        /\ searchedQueries' = Append(searchedQueries, query.q)
        /\ \E clustered \in BOOLEAN :
             allKnowledge' = allKnowledge \o QueryKnowledge(clustered, query.q)
  /\ allURLs' = allURLs + 1
  /\ keywordsQueries' = Tail(keywordsQueries)
  /\ invoked' = invoked \cup {"search", "serpCluster"}
  /\ UNCHANGED << pc, error >>
  /\ SearchFrame

\* the query has no results or its search fails, and the failure is not the
\* 401 of a selected Jina or arXiv provider: continue
SearchQuerySkipped ==
  /\ pc = "query" /\ keywordsQueries # <<>>
  /\ LET query == Head(keywordsQueries)
     IN /\ query.response # "results"
        /\ ~IsUnauthorized(query.response, searchProvider)
  /\ keywordsQueries' = Tail(keywordsQueries)
  /\ invoked' = invoked \cup {"search"}
  /\ UNCHANGED << pc, error, searchedQueries, allKnowledge, allURLs >>
  /\ SearchFrame

\* throw new Error('Unauthorized Jina API key')
SearchQueryUnauthorized ==
  /\ pc = "query" /\ keywordsQueries # <<>>
  /\ IsUnauthorized(Head(keywordsQueries).response, searchProvider)
  /\ pc' = "thrown"
  /\ error' = "Unauthorized Jina API key"
  /\ invoked' = invoked \cup {"search"}
  /\ UNCHANGED << keywordsQueries, searchedQueries, allKnowledge, allURLs >>
  /\ SearchFrame

\* the loop is over: newKnowledge and searchedQueries are returned
SearchReturns ==
  /\ pc = "query" /\ keywordsQueries = <<>>
  /\ pc' = "returned"
  /\ UNCHANGED << keywordsQueries, searchedQueries, allKnowledge, allURLs, invoked, error >>
  /\ SearchFrame

SearchNext ==
  \/ SearchQueryFound
  \/ SearchQuerySkipped
  \/ SearchQueryUnauthorized
  \/ SearchReturns

SearchSpec == SearchInit /\ [][SearchNext]_vars

(***************************************************************************)
(* The same session on messages that mention many URLs: the ranked list    *)
(* is just below or at the size that disables search.                      *)
(***************************************************************************)
CrowdedInputs ==
  { [kind |-> "string", text |-> <<"q">>, urls |-> 49, checks |-> <<>>],
    [kind |-> "string", text |-> <<"q">>, urls |-> 50, checks |-> <<"freshness">>] }

CrowdedInit == InitFrom(CrowdedInputs)

CrowdedSpec == CrowdedInit /\ [][Next]_vars

(***************************************************************************)
(* A session without a team (teamSize = 1) whose model only returns        *)
(* objects that validate against the schema of the step, with reflect      *)
(* proposals drawn from more questions.                                    *)
(***************************************************************************)
SoloProposals == { <<A>>, <<B, C>>, <<C, D, A>> }

SoloObjects ==
  [action : {"answer"}, arg : {TextPayload, NoPayload}] \cup
  [action : {"reflect"}, arg : SoloProposals] \cup
  [action : {"search", "visit", "coding"}, arg : {SomePayload}]

SoloInit == InitFrom(Inputs) /\ teamSize = 1

\* the model call of the step validates: the action is one the schema permits
SoloGenerate == GenerateFrom({ obj \in SoloObjects : Validates(obj, schema) })

SoloNext ==
  \/ BeginStep
  \/ ExitLoop
  \/ SoloGenerate
  \/ GenerateThrows
  \/ ExecAnswer
  \/ ExecReflect
  \/ ExecSearch
  \/ ExecSearchThrows
  \/ ExecVisit
  \/ ExecCoding
  \/ ExecNothing
  \/ BeastMode
  \/ Finalize

SoloSpec == SoloInit /\ [][SoloNext]_vars

(***************************************************************************)
(* ObjectGeneratorSafe.generateObject: the tiers of one call.  A model     *)
(* call returns an object or fails; a failure is a NoObjectGeneratedError  *)
(* whose text is JSON, is only Hjson, or cannot be parsed, or it is some   *)
(* other error.  Here error is the error the call throws, a record like    *)
(* the errors caught, and totalTokens counts the usage the call tracked.   *)
(***************************************************************************)
MaxRetries == 2
ModelOutcomes == {"object", "json", "hjson", "unparsable", "other"}

\* the error a failed call of the model raises
ModelError(m, n, outcome) == [model |-> m, attempt |-> n, kind |-> outcome]

Count(seq, x) == Cardinality({ i \in DOMAIN seq : seq[i] = x })

\* handleGenerateObjectError: a NoObjectGeneratedError whose text JSON.parse
\* or Hjson.parse accepts gives an object; anything else is thrown again
ManualParseSucceeds(e) == e.kind \in {"json", "hjson"}

\* variant: the retries are skipped
NoRetryRemains(n) == FALSE

\* if (numRetries > 0)
RetryRemains(n) == n > 0

\* variant: the last error caught is thrown
ThrowLastError(original, last) == last

\* throw error: the error of the primary call of the invocation
ThrowOriginalError(original, last) == original

\* the calls the agent makes name their model and give a schema
CallerOptions == [model : {"agent", "agentBeastMode"}, schema : {TRUE}]

\* !model || !schema
ArgumentsMissing(o) == o.model = "" \/ ~o.schema

GenInitFrom(callOptions) ==
  \E n \in 0 .. MaxRetries, o \in callOptions :
    /\ pc = "primary"
    /\ numRetries = << n >>
    /\ options = o
    /\ tiers = <<>>
    /\ primaryError = NoError /\ fallbackError = NoError
    /\ error = NoError
    /\ EvalIdle
    /\ SessionIdle
    /\ totalTokens = 0
    /\ question = <<"q">> /\ noDirectAnswer = FALSE /\ teamSize = 1 /\ questionChecks = <<>>
    /\ step = 1 /\ totalStep = 1
    /\ gaps = << <<"q">> >> /\ allQuestions = << <<"q">> >>
    /\ allKnowledge = <<>> /\ diaryContext = <<>>
    /\ allowAnswer = TRUE /\ allowSearch = TRUE /\ allowRead = TRUE
    /\ allowReflect = TRUE /\ allowCoding = TRUE
    /\ schema = getAgentSchema(TRUE, TRUE, TRUE, TRUE, TRUE)
    /\ thisStep = MkStep([action |-> "answer", arg |-> NoPayload])
    /\ currentQuestion = <<"q">>
    /\ evaluationMetrics = [ x \in { <<"q">> } |-> InitialMetrics(<<>>) ]
    /\ finalAnswerPIP = 0 /\ trivialQuestion = FALSE
    /\ allURLs = 0 /\ visitedURLs = 0 /\ weightedURLs = 0 /\ urlList = 0
    /\ invoked = {} /\ finalization = "none" /\ finalSteps = <<>> /\ allContext = 0
    /\ subproblems = <<>> /\ subproblemResponses = <<>>
    /\ searchProvider = "jina" /\ keywordsQueries = <<>> /\ searchedQueries = <<>>

GenInit == GenInitFrom(CallerOptions)

\* variant: every usage is recorded under the model of the call
RequestedModel(model) == model

\* the tool under which the fallback tiers record their usage
FallbackModel(model) == "fallback"

GenFrame ==
  UNCHANGED << Params, sessions, options, EvalState, TeamState, SearchState, step, totalStep, gaps, allQuestions,
               allKnowledge, diaryContext, Flags, schema, thisStep, currentQuestion,
               evaluationMetrics, finalAnswerPIP, trivialQuestion, allContext, URLState,
               invoked, FinalState >>

\* the call of the primary model in the current invocation
PrimaryCall ==
  /\ pc = "primary"
  /\ ~ArgumentsMissing(options)
  /\ tiers' = Append(tiers, "primary")
  /\ \E outcome \in ModelOutcomes :
       IF outcome = "object"
       THEN /\ pc' = "returned"
            /\ usages' = trackUsage(usages, options.model, 1)
            /\ totalTokens' = getTotalUsage(usages')
            /\ UNCHANGED primaryError
       ELSE /\ pc' = "manualParse"
            /\ primaryError' = ModelError("primary", Count(tiers, "primary") + 1, outcome)
            /\ UNCHANGED << totalTokens, usages >>
  /\ UNCHANGED << numRetries, fallbackError, error >>
  /\ GenFrame

\* handleGenerateObjectError(error) gives an object
ManualParseReturns ==
  /\ pc = "manualParse"
  /\ ManualParseSucceeds(primaryError)
  /\ tiers' = Append(tiers, "manualParse")
  /\ usages' = trackUsage(usages, options.model, 1)
  /\ totalTokens' = getTotalUsage(usages')
  /\ pc' = "returned"
  /\ UNCHANGED << numRetries, primaryError, fallbackError, error >>
  /\ GenFrame

\* handleGenerateObjectError(error) throws and a retry remains: the call
\* returns what generateObject gives with one retry less
Retry ==
  /\ pc = "manualParse"
  /\ ~ManualParseSucceeds(primaryError)
  /\ RetryRemains(numRetries[Len(numRetries)])
  /\ tiers' = Append(tiers, "manualParse")
  /\ numRetries' = Append(numRetries, numRetries[Len(numRetries)] - 1)
  /\ pc' = "primary"
  /\ UNCHANGED << primaryError, fallbackError, error, totalTokens, usages >>
  /\ GenFrame

\* handleGenerateObjectError(error) throws and no retry remains
ManualParseFails ==
  /\ pc = "manualParse"
  /\ ~ManualParseSucceeds(primaryError)
  /\ ~RetryRemains(numRetries[Len(numRetries)])
  /\ tiers' = Append(tiers, "manualParse")
  /\ pc' = "fallback"
  /\ UNCHANGED << numRetries, primaryError, fallbackError, error, totalTokens, usages >>
  /\ GenFrame

\* the call of the fallback model with the distilled schema
FallbackCall ==
  /\ pc = "fallback"
  /\ tiers' = Append(tiers, "fallback")
  /\ \E outcome \in ModelOutcomes :
       IF outcome = "object"
       THEN /\ pc' = "returned"
            /\ usages' = trackUsage(usages, FallbackModel(options.model), 1)
            /\ totalTokens' = getTotalUsage(usages')
            /\ UNCHANGED fallbackError
       ELSE /\ pc' = "fallbackParse"
            /\ fallbackError' = ModelError("fallback", 1, outcome)
            /\ UNCHANGED << totalTokens, usages >>
  /\ UNCHANGED << numRetries, primaryError, error >>
  /\ GenFrame

\* handleGenerateObjectError(fallbackError) gives an object
FallbackParseReturns ==
  /\ pc = "fallbackParse"
  /\ ManualParseSucceeds(fallbackError)
  /\ tiers' = Append(tiers, "fallbackParse")
  /\ usages' = trackUsage(usages, FallbackModel(options.model), 1)
  /\ totalTokens' = getTotalUsage(usages')
  /\ pc' = "returned"
  /\ UNCHANGED << numRetries, primaryError, fallbackError, error >>
  /\ GenFrame

\* handleGenerateObjectError(fallbackError) throws: throw error
AllTiersFail ==
  /\ pc = "fallbackParse"
  /\ ~ManualParseSucceeds(fallbackError)
  /\ tiers' = Append(tiers, "fallbackParse")
  /\ error' = ThrowOriginalError(primaryError, fallbackError)
  /\ pc' = "thrown"
  /\ UNCHANGED << numRetries, primaryError, fallbackError, totalTokens, usages >>
  /\ GenFrame

GenNext ==
  \/ PrimaryCall
  \/ ManualParseReturns
  \/ Retry
  \/ ManualParseFails
  \/ FallbackCall
  \/ FallbackParseReturns
  \/ AllTiersFail

GenSpec == GenInit /\ [][GenNext]_vars

\* any call of generateObject, the model or the schema left out included
CallOptions == [model : {"agent", ""}, schema : BOOLEAN]

CallInit == GenInitFrom(CallOptions)

\* the call is rejected before any tier: throw new Error('Model and schema
\* are required parameters')
RejectArguments ==
  /\ pc = "primary"
  /\ ArgumentsMissing(options)
  /\ pc' = "thrown"
  /\ error' = [model |-> "none", attempt |-> 0, kind |-> "arguments"]
  /\ UNCHANGED << numRetries, tiers, primaryError, fallbackError, totalTokens, usages >>
  /\ GenFrame

CallNext ==
  \/ GenNext
  \/ RejectArguments

CallSpec == CallInit /\ [][CallNext]_vars

(***************************************************************************)
(* Team mode, session by session: every invocation of getResponse is an    *)
(* entry of sessions, and all of them record their usage on the one        *)
(* tracker of the shared context.  A session yields at its awaits (the     *)
(* agent's model call, the evaluator, the planner, Promise.all), and only  *)
(* there may another session run.                                          *)
(***************************************************************************)
\* the caller gave no messages
NoMessage == [kind |-> "none", text |-> <<>>]

\* the last of the messages the caller of the session gives
LastMessage(in) == IF in.kind = "arg" THEN NoMessage ELSE [kind |-> in.kind, text |-> in.text]

\* the question of a session after the set-up of getResponse: the content of
\* the last message when there are messages, the question argument otherwise
SessionQuestion(arg, message) ==
  IF message # NoMessage
  THEN ExtractQuestion([kind |-> message.kind, text |-> message.text])
  ELSE Trim(arg)

\* the messages of a session after the set-up: those given, or one user
\* message holding the question
SessionMessages(arg, message) ==
  IF message # NoMessage THEN message ELSE [kind |-> "string", text |-> Trim(arg)]

\* variant: the sub-sessions inherit the team size of their parent
ParentTeamSize(ts) == ts

\* the teamSize argument of the getResponse calls of the search branch
SubSessionTeamSize(ts) == 1

\* an invocation getResponse(arg, ..., context, message, ..., ts) made by the
\* session parent (0: the caller of the agent), after its set-up
getResponse(parent, depth, arg, message, ts) ==
  [parent |-> parent, depth |-> depth, arg |-> arg,
   question |-> SessionQuestion(arg, message),
   messages |-> SessionMessages(arg, message),
   gaps |-> << SessionQuestion(arg, message) >>,
   teamSize |-> ts, pc |-> "loop", subproblems |-> <<>>, children |-> <<>>,
   recorded |-> 0]

\* the sessions that have neither returned nor thrown
Alive == { i \in DOMAIN sessions : sessions[i].pc \notin {"returned", "thrown"} }

TeamInit ==
  \E in \in Inputs, ts \in TeamSizes :
    /\ sessions = << getResponse(0, 0, in.text, LastMessage(in), ts) >>
    /\ usages = <<>>
    /\ totalTokens = 0
    /\ pc = "team"
    /\ question = ExtractQuestion(in)
    /\ noDirectAnswer = FALSE
    /\ teamSize = ts
    /\ questionChecks = in.checks
    /\ step = 0 /\ totalStep = 0
    /\ gaps = << ExtractQuestion(in) >>
    /\ allQuestions = << ExtractQuestion(in) >>
    /\ allKnowledge = <<>>
    /\ diaryContext = <<>>
    /\ allowAnswer = TRUE /\ allowSearch = TRUE /\ allowRead = TRUE
    /\ allowReflect = TRUE /\ allowCoding = FALSE
    /\ schema = getAgentSchema(TRUE, TRUE, TRUE, TRUE, TRUE)
    /\ thisStep = [action |-> "answer", arg |-> NoPayload, references |-> <<>>,
                   isFinal |-> FALSE, isAggregated |-> FALSE]
    /\ currentQuestion = <<>>
    /\ evaluationMetrics = [ x \in {} |-> <<>> ]
    /\ finalAnswerPIP = 0
    /\ trivialQuestion = FALSE
    /\ allURLs = in.urls
    /\ visitedURLs = 0
    /\ weightedURLs = 0
    /\ urlList = 0
    /\ invoked = {}
    /\ finalization = "none" /\ finalSteps = <<>>
    /\ allContext = 0
    /\ subproblems = <<>> /\ subproblemResponses = <<>>
    /\ searchProvider = "jina" /\ keywordsQueries = <<>> /\ searchedQueries = <<>>
    /\ error = "none"
    /\ GenIdle
    /\ EvalIdle

\* what the sessions leave alone: the state of the single session followed
\* by the main loop above
TeamFrame ==
  UNCHANGED << Params, GenState, EvalState, TeamState, SearchState, pc, step, totalStep, gaps,
               allQuestions, allKnowledge, diaryContext, Flags, schema, thisStep,
               currentQuestion, evaluationMetrics, finalAnswerPIP, trivialQuestion,
               allContext, URLState, invoked, FinalState, error >>

\* session i records the usage of a call of tool on the shared tracker
Records(i, tool, next) ==
  \E cost \in TokenCosts :
    /\ usages' = trackUsage(usages, tool, cost)
    /\ totalTokens' = getTotalUsage(usages')
    /\ sessions' = [sessions EXCEPT ![i].pc = next, ![i].recorded = @ + cost]

\* the while test succeeds and the session awaits the agent's model call
BeginIteration(i) ==
  /\ sessions[i].pc = "loop"
  /\ WithinRegularBudget(totalTokens)
  /\ sessions' = [sessions EXCEPT ![i].pc = "step"]
  /\ UNCHANGED << usages, totalTokens >>
  /\ TeamFrame

\* the while test fails and the session goes to beast mode
LeaveLoop(i) ==
  /\ sessions[i].pc = "loop"
  /\ ~WithinRegularBudget(totalTokens)
  /\ sessions' = [sessions EXCEPT ![i].pc = "beast"]
  /\ UNCHANGED << usages, totalTokens >>
  /\ TeamFrame

\* the model call returns an answer to the question of the session, which
\* goes to the evaluator
StepAnswers(i) ==
  /\ sessions[i].pc = "step"
  /\ Records(i, "agent", "evaluate")
  /\ TeamFrame

\* the evaluator returns: a passed answer to the question ends the loop
Evaluated(i) ==
  /\ sessions[i].pc = "evaluate"
  /\ \E pass \in BOOLEAN : Records(i, "evaluator", IF pass THEN "returned" ELSE "loop")
  /\ TeamFrame

\* the model call returns a search: a team session goes on to the planner,
\* any other goes back to the loop
StepSearches(i) ==
  /\ sessions[i].pc = "step"
  /\ Records(i, "agent", IF sessions[i].teamSize > 1 THEN "plan" ELSE "loop")
  /\ TeamFrame

\* the model call throws on every tier: the error leaves the session
StepThrows(i) ==
  /\ sessions[i].pc = "step"
  /\ sessions' = [sessions EXCEPT ![i].pc = "thrown"]
  /\ UNCHANGED << usages, totalTokens >>
  /\ TeamFrame

\* the planner returns: several sub-problems start one sub-session each, on
\* the context and the messages of the parent; a single one joins the gaps
Planned(i) ==
  /\ sessions[i].pc = "plan"
  /\ \E plan \in PlannerResults, cost \in TokenCosts :
       /\ usages' = trackUsage(usages, "researchPlanner", cost)
       /\ totalTokens' = getTotalUsage(usages')
       /\ IF Len(plan) > 1
          THEN sessions' =
                 [sessions EXCEPT ![i].pc = "await", ![i].recorded = @ + cost,
                                  ![i].subproblems = plan,
                                  ![i].children = [ k \in DOMAIN plan |-> Len(sessions) + k ]]
                 \o [ k \in DOMAIN plan |->
                        getResponse(i, sessions[i].depth + 1, plan[k], sessions[i].messages,
                                    SubSessionTeamSize(sessions[i].teamSize)) ]
          ELSE sessions' =
                 [sessions EXCEPT ![i].pc = "loop", ![i].recorded = @ + cost,
                                  ![i].gaps = Append(@, plan[1])]
  /\ TeamFrame

\* Promise.all resolves: the parent returns the aggregated answer
Aggregate(i) ==
  /\ sessions[i].pc = "await"
  /\ \A k \in DOMAIN sessions[i].children :
       sessions[sessions[i].children[k]].pc = "returned"
  /\ sessions' = [sessions EXCEPT ![i].pc = "returned"]
  /\ UNCHANGED << usages, totalTokens >>
  /\ TeamFrame

\* Promise.all rejects: the error of a sub-session leaves the parent, while
\* the other sub-sessions go on
AwaitRejects(i) ==
  /\ sessions[i].pc = "await"
  /\ \E k \in DOMAIN sessions[i].children :
       sessions[sessions[i].children[k]].pc = "thrown"
  /\ sessions' = [sessions EXCEPT ![i].pc = "thrown"]
  /\ UNCHANGED << usages, totalTokens >>
  /\ TeamFrame

\* beast mode: one more model call, whose answer the session returns
Beast(i) ==
  /\ sessions[i].pc = "beast"
  /\ Records(i, "agentBeastMode", "returned")
  /\ TeamFrame

TeamNext ==
  \E i \in DOMAIN sessions :
    \/ BeginIteration(i)
    \/ LeaveLoop(i)
    \/ StepAnswers(i)
    \/ Evaluated(i)
    \/ StepSearches(i)
    \/ StepThrows(i)
    \/ Planned(i)
    \/ Aggregate(i)
    \/ AwaitRejects(i)
    \/ Beast(i)

TeamSpec == TeamInit /\ [][TeamNext]_vars

(***************************************************************************)
(* Properties                                                              *)
(***************************************************************************)
Returned == pc = "done"
BeastRan == "beastMode" \in invoked
RegularBudgetSpent == totalTokens * 100 >= TokenBudget * RegularBudgetPercent

\* C1: whenever getResponse returns instead of throwing, the step it
\* returns as result has isFinal = true.
C1_ReturnedResultIsFinal == Returned => thisStep.isFinal

\* a session that returned after beast mode answered for a loop that ran
C1_Witness == Returned /\ BeastRan /\ totalStep > 1 /\ thisStep.isFinal

\* C2: beast mode is entered exactly when the loop is left with the current
\* step not marked final (a loop of zero iterations included); it is entered
\* from nowhere else and never a second time; entering it adds exactly one to
\* totalStep, uses a schema that permits only answer and, when its single
\* generation call returns, records the usage of exactly one call.
C2_BeastModeEntry ==
  [][ /\ (pc = "afterLoop" /\ pc' # "afterLoop")
           => (("beastMode" \in invoked') <=> ~thisStep.isFinal)
      /\ ("beastMode" \in invoked' /\ ~BeastRan)
           => /\ pc = "afterLoop"
              /\ totalStep' = totalStep + 1
              /\ schema' = {"answer"}
              /\ pc' \in {"finalize", "thrown"}
              /\ pc' = "finalize"
                   => \E cost \in TokenCosts : totalTokens' = totalTokens + cost
      /\ BeastRan => (pc' \in {"finalize", "done", "thrown"} /\ totalStep' = totalStep)
    ]_vars

\* beast mode has answered for a session whose budget was spent on entry: no
\* regular iteration ran
C2_Witness ==
  pc = "finalize" /\ BeastRan /\ totalStep = 1 /\ currentQuestion = <<>>
    /\ schema = {"answer"}

\* C3: once an original question that is evaluated has no check left (every
\* counter reached zero, no evaluation passed), the loop is over: control is
\* after the loop with the step not final, or beast mode has run and the
\* step is final, or beast mode's generation threw.
C3_ExhaustedChecksLeadToBeastMode ==
  (/\ question \in DOMAIN evaluationMetrics
   /\ Trim(question) = question
   /\ evaluationMetrics[question] = <<>>)
    => \/ pc = "afterLoop" /\ ~thisStep.isFinal /\ ~BeastRan
       \/ pc \in {"finalize", "done"} /\ thisStep.isFinal /\ BeastRan
       \/ pc = "thrown" /\ BeastRan

\* the checks ran out after two failed answers and beast mode's answer was
\* returned
C3_Witness ==
  /\ Returned /\ BeastRan /\ thisStep.isFinal
  /\ question \in DOMAIN evaluationMetrics
  /\ Trim(question) = question
  /\ evaluationMetrics[question] = <<>>
  /\ finalAnswerPIP = maxBadAttempts

C5_LoopCountsUpAndTerminates ==
  /\ [][ (pc = "loop" /\ pc' \in {"gen", "thrown"}) => totalStep' = totalStep + 1 ]_vars
  /\ [][ (pc # "loop" /\ pc # "afterLoop") => totalStep' = totalStep ]_vars
  /\ [](pc \in {"gen", "exec", "loop"}
          => (totalStep - 1) * 100 < TokenBudget * RegularBudgetPercent)

\* the loop ended because the budget ran out after several iterations
C5_Witness ==
  pc = "afterLoop" /\ RegularBudgetSpent /\ totalStep >= TokenBudget /\ ~BeastRan

C7_FreshnessFirstActionIsSearchOrVisit ==
  (/\ pc = "exec" /\ totalStep = 1
   /\ \E i \in DOMAIN evaluationMetrics[currentQuestion] :
        evaluationMetrics[currentQuestion][i].type = "freshness")
    => /\ schema \cap {"answer", "reflect"} = {}
       /\ thisStep.action \in {"search", "visit"}

\* a question with a freshness check was answered at step 1 and the answer
\* returned as trivial
C7_Witness ==
  /\ Returned /\ trivialQuestion /\ totalStep = 1
  /\ "answer" \notin schema
  /\ "freshness" \in Range(questionChecks)

\* the answer step in hand works on the original question, is not the
\* trivial case, and its evaluation does not fail (no counter is touched)
OriginalAnswerPasses ==
  /\ pc = "exec" /\ currentQuestion = question
  /\ thisStep.action = "answer" /\ thisStep.arg # NoPayload
  /\ ~(totalStep = 1 /\ ~noDirectAnswer)
  /\ evaluationMetrics' = evaluationMetrics

\* C8: when the current question is the original question and the
\* evaluation of an answer with text passes, the loop is left at that step
\* with the step final, so that beast mode is not entered.
C8_PassedOriginalAnswerEndsLoop ==
  [][ OriginalAnswerPasses
        => (pc' = "afterLoop" /\ thisStep'.isFinal /\ ~BeastRan) ]_vars

\* an answer to the original question passed and was returned without beast
\* mode, after more than one step
C8_Witness ==
  /\ Returned /\ ~BeastRan /\ ~trivialQuestion /\ totalStep > 1
  /\ currentQuestion = question /\ ~thisStep.isAggregated
  /\ "answer-good" \in Range(diaryContext)

Occurrences(g, q) == Cardinality({ i \in DOMAIN g : g[i] = q })

\* g2 is g without one entry equal to q, the others in their order
OneEntryRemoved(g, g2, q) ==
  \E i \in DOMAIN g :
    /\ g[i] = q
    /\ Len(g2) = Len(g) - 1
    /\ \A j \in DOMAIN g2 : g2[j] = IF j < i THEN g[j] ELSE g[j + 1]

\* the answer step in hand works on a sub-question (its evaluation passes)
SubQuestionAnswerPasses ==
  /\ pc = "exec"
  /\ thisStep.action = "answer" /\ thisStep.arg # NoPayload
  /\ ~(totalStep = 1 /\ ~noDirectAnswer)
  /\ Trim(currentQuestion) # question

SubQuestionRemovedOnce ==
  SubQuestionAnswerPasses
    => /\ OneEntryRemoved(gaps, gaps', currentQuestion)
       /\ allKnowledge' = Append(allKnowledge,
                                  [type |-> "qa", question |-> currentQuestion])

\* a qa item records that the answer to q passed
Answered(q) ==
  \E i \in DOMAIN allKnowledge : allKnowledge[i] = [type |-> "qa", question |-> q]

ReflectStep == pc = "exec" /\ thisStep.action = "reflect"
TeamSearchStep == pc = "exec" /\ thisStep.action = "search" /\ teamSize > 1

\* C9 as stated: a sub-question whose answer passes is removed from gaps
\* once (one entry, the others and their order kept) and a qa item is
\* appended; after the removal it is not in gaps, and it comes back only
\* through a reflect step.
C9_RemovedAndOnlyReflectReadds ==
  [][ /\ SubQuestionRemovedOnce
      /\ SubQuestionAnswerPasses => currentQuestion \notin Range(gaps')
      /\ \A q \in Range(gaps') :
           (Answered(q) /\ Occurrences(gaps', q) > Occurrences(gaps, q)) => ReflectStep
    ]_vars

\* C9, amended: a sub-question whose answer passes loses exactly one entry
\* of gaps (the others and their order kept) and a qa item is appended; the
\* number of entries of gaps equal to a text grows only in a reflect step
\* or in a search step of a team session, whose planner's single sub-problem
\* is pushed as it is, one entry at a time.
C9_RemovedOnceReaddedByReflectOrTeamSearch ==
  [][ /\ SubQuestionRemovedOnce
      /\ \A q \in Range(gaps') :
           (Occurrences(gaps', q) > Occurrences(gaps, q))
             => \/ ReflectStep
                \/ TeamSearchStep /\ gaps' = Append(gaps, q)
    ]_vars

\* a sub-question was answered and removed, and a later search step of a
\* team session put the same text back into gaps
C9_Witness ==
  /\ pc = "loop" /\ teamSize > 1
  /\ Answered(B)
  /\ B \in Range(gaps)
  /\ B \in Range(allQuestions)
  /\ thisStep.action = "search"

\* C10: in every reachable state gaps is non-empty and holds the original
\* question, however the question was supplied.
C10_GapsHoldOriginalQuestion == gaps # <<>> /\ question \in Range(gaps)

\* the original question, taken untrimmed from a message part, was removed
\* from gaps and the next iteration failed on the empty list
C10_Witness == pc = "thrown" /\ gaps = <<>> /\ Trim(question) # question

\* the step before the one being generated executed the branch of action a
PreviousStepExecuted(a) ==
  pc = "gen" /\ totalStep > 1 /\ thisStep.action = a /\ thisStep.arg # NoPayload

\* C11: in the step that follows a step whose search branch was executed
\* (and did not end the loop through team mode), the schema permits neither
\* search nor answer, whether or not the search found anything.
C11_NoSearchNoAnswerAfterSearch ==
  PreviousStepExecuted("search") => schema \cap {"search", "answer"} = {}

\* the step after a search that found nothing is being generated
C11_Witness ==
  /\ PreviousStepExecuted("search")
  /\ diaryContext # <<>> /\ diaryContext[Len(diaryContext)] = "search-nothing"
  /\ "search" \notin schema /\ "answer" \notin schema

CooldownActions == {"search", "visit", "reflect", "coding"}

\* C12: when the action chosen in a step is search, visit, reflect or coding
\* and the schema of that step accepted it, the schema of the next step does
\* not permit that action, whatever the payload.
C12_ChosenActionCoolsDown ==
  [][ (/\ pc = "loop" /\ pc' = "gen" /\ totalStep >= 1
       /\ thisStep.action \in CooldownActions
       /\ thisStep.action \in schema)
        => thisStep.action \notin schema' ]_vars

\* a visit without targets was chosen under a schema that permits visit, and
\* the schema of the next step permits visit again
C12_Witness ==
  /\ pc = "gen" /\ totalStep = 2
  /\ thisStep.action = "visit" /\ thisStep.arg = NoPayload
  /\ "visit" \in schema /\ visitedURLs = 0 /\ allURLs > 0

Parsed == pc \in {"accepted", "rejected"}

\* the actions whose flag is true, read standing for visit
FlaggedActions ==
  { a \in Actions :
      \/ a = "search" /\ allowSearch
      \/ a = "visit" /\ allowRead
      \/ a = "answer" /\ allowAnswer
      \/ a = "reflect" /\ allowReflect
      \/ a = "coding" /\ allowCoding }

\* C13: the action selector of the schema built from the five flags allows
\* exactly the actions whose flag is true (read standing for visit), and a
\* payload is held to a sub-schema exactly when its action is permitted: at
\* most 5 search requests, 5 visit targets, 2 reflect questions and 500
\* characters of coding issue.
C13_SchemaFollowsFlags ==
  Parsed =>
    /\ schema = FlaggedActions
    /\ pc = "accepted"
         <=> /\ thisStep.action \in FlaggedActions
             /\ thisStep.key \in FlaggedActions
                  => /\ thisStep.key = "search" => thisStep.size <= 5
                     /\ thisStep.key = "visit" => thisStep.size <= 5
                     /\ thisStep.key = "reflect" => thisStep.size <= 2
                     /\ thisStep.key = "coding" => thisStep.size <= 500

\* six search requests are rejected by a schema that permits search
C13_Witness ==
  /\ pc = "rejected" /\ allowSearch
  /\ thisStep.action = "search" /\ thisStep.key = "search" /\ thisStep.size = 6

\* C14: the schema built with all five flags false accepts no object.
C14_EmptySchemaRejectsAll ==
  (Parsed /\ ~allowReflect /\ ~allowRead /\ ~allowAnswer /\ ~allowSearch /\ ~allowCoding)
    => pc = "rejected"

\* an object was parsed against the schema without actions and rejected
C14_Witness ==
  /\ pc = "rejected" /\ schema = {}
  /\ ~allowReflect /\ ~allowRead /\ ~allowAnswer /\ ~allowSearch /\ ~allowCoding
  /\ thisStep.key = NoKey

\* the URLs the indices of a visit step stand for, in their order: the
\* normalized i-th entry of the list for an index i within the list whose URL
\* is not visited yet, nothing for any other index
RECURSIVE TargetsOfIndices(_, _, _)
TargetsOfIndices(indices, list, visited) ==
  IF indices = <<>> THEN <<>>
  ELSE LET i == Head(indices)
           own == IF i >= 1 /\ i <= Len(list) /\ normalizeUrl(list[i]) \notin Range(visited)
                  THEN << normalizeUrl(list[i]) >> ELSE <<>>
       IN own \o TargetsOfIndices(Tail(indices), list, visited)

\* s without the later copies of its elements
FirstOccurrences(s) ==
  SelectSeq([ i \in DOMAIN s |-> [at |-> i, url |-> s[i]] ],
            LAMBDA e : \A j \in 1 .. (e.at - 1) : s[j] # e.url)

\* C15: in a visit step the targets read first are the URLs its indices
\* stand for in the URL list of that step, resolved against the list and the
\* visited URLs as they are when the step starts; an index outside the list
\* or of a visited URL gives no target, and whatever else is read comes from
\* the ranked list.
C15_IndicesResolveAgainstStepList ==
  [][ (pc = "exec" /\ Len(thisStep.arg) > 0 /\ Len(urlList) > 0)
        => LET own == FirstOccurrences(TargetsOfIndices(thisStep.arg, urlList, visitedURLs))
           IN /\ Len(thisStep'.arg) >= Len(own)
              /\ \A k \in DOMAIN own : thisStep'.arg[k] = own[k].url
              /\ \A k \in (Len(own) + 1) .. Len(thisStep'.arg) :
                   \E j \in DOMAIN weightedURLs : thisStep'.arg[k] = weightedURLs[j]
              /\ urlList' = urlList
    ]_vars

\* the first entry of the step's URL list, ranked second, was read first
C15_Witness ==
  /\ pc = "loop" /\ "visit" \in invoked
  /\ urlList = <<U2, U1>> /\ weightedURLs = <<U1, U2>>
  /\ thisStep.arg = <<U2, U1>> /\ visitedURLs = <<U2, U1>>


\* the proposed questions that are not in the asked ones, each once, in the
\* order of the proposal
Surviving(proposed, asked) ==
  LET fresh == FirstOccurrences(SelectSeq(proposed, LAMBDA q : q \notin Range(asked)))
  IN [ i \in DOMAIN fresh |-> fresh[i].url ]

ReflectExecuted ==
  pc = "exec" /\ pc' = "loop" /\ thisStep.action = "reflect" /\ thisStep.arg # NoPayload

\* C16: a reflect step none of whose proposed questions is new leaves gaps
\* and allQuestions as they are and appends the one "asked before" entry to
\* the diary; otherwise the first new questions, two at most, are appended in
\* their order to gaps and to allQuestions.  In both cases the step is
\* recorded in the session history and reflect is not permitted in the next
\* step.
C16_ReflectAppendsOnlyNewQuestions ==
  /\ [][ ReflectExecuted =>
          LET surviving == Surviving(thisStep.arg, allQuestions)
              kept == SubSeq(surviving, 1, Min(Len(surviving), MAX_REFLECT_PER_STEP))
          IN /\ IF surviving = <<>>
                THEN /\ gaps' = gaps /\ allQuestions' = allQuestions
                     /\ diaryContext' = Append(diaryContext, "reflect-asked-before")
                ELSE /\ gaps' = gaps \o kept /\ allQuestions' = allQuestions \o kept
                     /\ Len(diaryContext') = Len(diaryContext) + 1
             /\ allContext' = allContext + 1
             /\ ~allowReflect' ]_vars
  /\ [](PreviousStepExecuted("reflect") => "reflect" \notin schema)

\* a reflect step proposed only questions asked before: nothing was added
\* to the two lists of one question asked in the first step
C16_Witness ==
  /\ pc = "loop" /\ thisStep.action = "reflect" /\ thisStep.arg = <<>>
  /\ diaryContext # <<>> /\ diaryContext[Len(diaryContext)] = "reflect-asked-before"
  /\ allQuestions = << question, A >> /\ allContext >= 2 /\ ~allowReflect


TeamStarts == pc = "exec" /\ pc' = "await"
ResultBuilt == ~thisStep.isAggregated /\ thisStep'.isAggregated

\* the field f of the first k sub-session results, one after the other with
\* the separator in between
RECURSIVE InOrder(_, _)
InOrder(f, k) ==
  IF k = 0 THEN <<>>
  ELSE IF k = 1 THEN subproblemResponses[1][f]
       ELSE InOrder(f, k - 1) \o << <<"\n\n">> >> \o subproblemResponses[k][f]

\* the markdown answers of the sub-sessions that are not empty, in order
RECURSIVE NonEmptyInOrder(_)
NonEmptyInOrder(k) ==
  IF k = 0 THEN <<>>
  ELSE LET md == subproblemResponses[k].mdAnswer
           before == NonEmptyInOrder(k - 1)
       IN IF md = <<>> THEN before
          ELSE IF before = <<>> THEN md
               ELSE before \o << <<"\n\n">> >> \o md

NoTwoWithSameURL(references) ==
  \A i, j \in DOMAIN references : i # j => references[i].url # references[j].url

QueryFails(response) == response \in {"empty", "failure"}

\* C18: in executeSearchQueries a 401 from the Jina or arXiv provider, be it
\* the provider the caller selected or the one of the configuration, throws
\* out of the call; a query that fails otherwise or has no results is
\* skipped, it adds nothing, and the loop goes on with the queries left.
C18_UnauthorizedAbortsOtherFailuresSkip ==
  [][ (pc = "query" /\ keywordsQueries # <<>>) =>
        LET query == Head(keywordsQueries)
        IN /\ (/\ query.response = "unauthorized"
               /\ EffectiveProvider(searchProvider) \in {"jina", "arxiv"})
                => (pc' = "thrown" /\ error' = "Unauthorized Jina API key")
           /\ QueryFails(query.response)
                => /\ pc' = "query" /\ keywordsQueries' = Tail(keywordsQueries)
                   /\ searchedQueries' = searchedQueries
                   /\ allKnowledge' = allKnowledge ]_vars

\* the part of C18 that holds: the 401 of a provider the caller selected
\* leaves the call, and the other failures skip one query
C18_SelectedProviderUnauthorizedAborts ==
  [][ (pc = "query" /\ keywordsQueries # <<>>) =>
        LET query == Head(keywordsQueries)
        IN /\ (query.response = "unauthorized" /\ searchProvider \in {"jina", "arxiv"})
                => (pc' = "thrown" /\ error' = "Unauthorized Jina API key")
           /\ QueryFails(query.response)
                => /\ pc' = "query" /\ keywordsQueries' = Tail(keywordsQueries)
                   /\ searchedQueries' = searchedQueries
                   /\ allKnowledge' = allKnowledge ]_vars


\* C19: a search, visit or coding step in which a collaborator raises an
\* error ends like any other step, with a diary entry and control back at
\* the loop test; the only error that leaves getResponse from such a step is
\* the one for unauthorized credentials.
C19_CollaboratorErrorsStayInStep ==
  [][ (pc = "exec" /\ thisStep.action \in {"search", "visit", "coding"}) =>
        /\ pc' = "thrown" => error' = "Unauthorized Jina API key"
        /\ pc' = "loop" /\ thisStep.arg # NoPayload /\ urlList > 0
             => Len(diaryContext') = Len(diaryContext) + 1 ]_vars

\* the query rewriter raised an error in a search step and the error left
\* getResponse
C19_Witness ==
  /\ pc = "thrown" /\ error = "rewriteQuery"
  /\ thisStep.action = "search" /\ thisStep.arg # NoPayload


IsPrefix(s, t) == Len(s) <= Len(t) /\ \A i \in DOMAIN s : s[i] = t[i]

\* C20: every step of a session leaves the knowledge list as it is or adds
\* items at its end, the step that resets the diary after a failed answer
\* included: the list of any state is a prefix of the list of every later
\* state.
C20_KnowledgeIsAppendOnly ==
  [][ IsPrefix(allKnowledge, allKnowledge') ]_vars

\* a failed answer has just reset the diary; the knowledge gathered by the
\* search before it is still there, in front of the item about the failure
C20_Witness ==
  /\ pc = "loop" /\ step = 0 /\ diaryContext = <<>> /\ totalStep >= 2
  /\ Len(allKnowledge) >= 2
  /\ allKnowledge[1].type = "side-info"
  /\ allKnowledge[Len(allKnowledge)] = WhyBad(currentQuestion)


\* the tiers of one call come in the fixed order, for the call's numRetries
TiersInOrder ==
  \A i \in DOMAIN tiers :
    /\ tiers[i] = "primary" => (i = 1 \/ tiers[i - 1] = "manualParse")
    /\ tiers[i] = "manualParse" => (i > 1 /\ tiers[i - 1] = "primary")
    /\ tiers[i] = "fallback" =>
         /\ i > 1 /\ tiers[i - 1] = "manualParse"
         /\ Count(SubSeq(tiers, 1, i), "primary") = numRetries[1] + 1
         /\ numRetries[Len(numRetries)] = 0
    /\ tiers[i] = "fallbackParse" => (i > 1 /\ tiers[i - 1] = "fallback")

\* C21: generateObject applies its tiers in the fixed order primary call,
\* manual parse, retries of the primary call while numRetries remain,
\* fallback model, manual parse of the fallback's failure; when every
\* attempt fails with numRetries = n the primary model was called n+1 times
\* and the fallback model once; the fallback model is not called while a
\* retry remains, and nothing is called after a tier produced an object.
C21_TiersInFixedOrder ==
  /\ [](/\ TiersInOrder
        /\ Count(tiers, "primary") <= numRetries[1] + 1
        /\ Count(tiers, "fallback") <= 1
        /\ Len(numRetries) = Count(tiers, "primary") + (IF pc = "primary" THEN 1 ELSE 0)
        /\ pc = "thrown" =>
             /\ Count(tiers, "primary") = numRetries[1] + 1
             /\ Count(tiers, "fallback") = 1
             /\ Len(tiers) = 2 * numRetries[1] + 4)
  /\ [][pc = "returned" => tiers' = tiers]_vars

C21_Witness ==
  /\ pc = "thrown"
  /\ numRetries[1] = MaxRetries
  /\ Count(tiers, "primary") = MaxRetries + 1

KeptIndices(old, t) ==
  { i \in DOMAIN old : old[i].type # t \/ old[i].numEvalsRequired > 1 }
NthKept(old, t, j) ==
  CHOOSE i \in KeptIndices(old, t) :
    Cardinality({ k \in KeptIndices(old, t) : k < i }) = j - 1

\* new is old after one failure of type t: the entries of type t count one
\* less, the others are as they were, and exactly the entries that reached
\* zero are gone
FailureOfType(old, new, t) ==
  /\ Len(new) = Cardinality(KeptIndices(old, t))
  /\ \A j \in DOMAIN new :
       LET e == old[NthKept(old, t, j)]
       IN /\ new[j].type = e.type
          /\ new[j].numEvalsRequired =
               IF e.type = t THEN e.numEvalsRequired - 1 ELSE e.numEvalsRequired

\* the evaluation of an answer to the original question has just failed
OriginalAnswerFails ==
  /\ pc = "exec" /\ thisStep.action = "answer" /\ thisStep.arg # NoPayload
  /\ Trim(currentQuestion) = question
  /\ pc' \in {"loop", "afterLoop"} /\ ~thisStep'.isFinal

FailureGoesOn == OriginalAnswerFails /\ pc' = "loop"

\* C24: after a failed evaluation of the original question that leaves
\* checks in the metric list, one 'why is this answer bad' qa item is
\* appended to the knowledge, the diary is empty, the step counter is
\* restarted so that the next step is numbered 1, answer and coding are not
\* permitted in the next iteration, and totalStep, gaps and the URL registry
\* are as they were.
C24_FailureRestartsTheCycle ==
  /\ [][FailureGoesOn =>
          /\ allKnowledge' = Append(allKnowledge, WhyBad(currentQuestion))
          /\ allKnowledge'[Len(allKnowledge')].type = "qa"
          /\ diaryContext' = <<>>
          /\ step' = 0
          /\ ~allowAnswer' /\ ~allowCoding'
          /\ totalStep' = totalStep /\ gaps' = gaps
          /\ allURLs' = allURLs /\ visitedURLs' = visitedURLs]_vars
  /\ [][(pc = "loop" /\ step = 0 /\ totalStep > 0 /\ pc' = "gen") =>
          /\ step' = 1
          /\ diaryContext' = <<>>
          /\ "answer" \notin schema' /\ "coding" \notin schema']_vars
  /\ []((pc = "loop" /\ step = 0 /\ totalStep > 0) =>
          /\ diaryContext = <<>> /\ ~allowAnswer /\ ~allowCoding
          /\ allKnowledge # <<>>
          /\ allKnowledge[Len(allKnowledge)] = WhyBad(question))

\* the iteration after a failed answer has begun
C24_Witness ==
  /\ pc = "gen" /\ step = 1 /\ totalStep = 2
  /\ diaryContext = <<>>
  /\ allKnowledge = << WhyBad(question) >>
  /\ "answer" \notin schema /\ "coding" \notin schema
  /\ Len(evaluationMetrics[question]) > 0

\* an iteration of the loop has just chosen its current question
IterationBegins == pc = "loop" /\ pc' \in {"gen", "thrown"}

\* C25: in each iteration the current question is
\* gaps[totalStep mod length(gaps)], taken from gaps and the incremented
\* totalStep at the start of the iteration; it is always an element of gaps,
\* and at totalStep = 1 it is the original question.
C25_CurrentQuestionRotatesThroughGaps ==
  [][IterationBegins =>
       /\ totalStep' = totalStep + 1 /\ gaps' = gaps
       /\ currentQuestion' \in Range(gaps)
       /\ currentQuestion' = gaps[(totalStep' % Len(gaps)) + 1]
       /\ totalStep' = 1 => currentQuestion' = question]_vars

\* the part that holds: whenever gaps is not empty the question is chosen
\* by rotation, and the first one is the original question
C25_RotatesWhenGapsNotEmpty ==
  [][(IterationBegins /\ gaps # <<>>) =>
       /\ totalStep' = totalStep + 1 /\ gaps' = gaps
       /\ currentQuestion' \in Range(gaps)
       /\ currentQuestion' = gaps[(totalStep' % Len(gaps)) + 1]
       /\ totalStep' = 1 => currentQuestion' = question]_vars

\* an iteration began on an empty gaps list: no current question
C25_Witness ==
  /\ pc = "thrown" /\ error = "TypeError"
  /\ gaps = <<>> /\ currentQuestion = Undefined /\ totalStep > 1

\* the list is one entry per check type the classifier returned, each with
\* maxBadAttempts evaluations, followed by the only strict entry
FreshMetricList(list, checks) ==
  /\ Len(list) = Len(checks) + 1
  /\ \A i \in DOMAIN checks :
       list[i] = [type |-> checks[i], numEvalsRequired |-> maxBadAttempts]
  /\ list[Len(list)] = [type |-> "strict", numEvalsRequired |-> maxBadAttempts]
  /\ Cardinality({ i \in DOMAIN list : list[i].type = "strict" }) = 1

SumOfCounters(list) ==
  LET F[i \in 0 .. Len(list)] ==
        IF i = 0 THEN 0 ELSE F[i - 1] + list[i].numEvalsRequired
  IN F[Len(list)]

\* the first iteration creates the metric list of the original question
CreatedAtStepOne ==
  (pc = "loop" /\ pc' = "gen" /\ totalStep' = 1) =>
     /\ question \notin DOMAIN evaluationMetrics
     /\ question \in DOMAIN evaluationMetrics'
     /\ FreshMetricList(evaluationMetrics'[question], questionChecks)

\* once created, the list is not created again or refilled
NeverRefilled ==
  (question \in DOMAIN evaluationMetrics) =>
     /\ question \in DOMAIN evaluationMetrics'
     /\ pc = "loop" => evaluationMetrics'[question] = evaluationMetrics[question]
     /\ Len(evaluationMetrics'[question]) <= Len(evaluationMetrics[question])
     /\ SumOfCounters(evaluationMetrics'[question])
          <= SumOfCounters(evaluationMetrics[question])

\* a sub-question that is the current question has an empty list
SubQuestionListEmpty ==
  (pc \in {"gen", "exec"} /\ currentQuestion # question) =>
     evaluationMetrics[currentQuestion] = <<>>

\* C26: the metric list of the original question is created exactly once,
\* at totalStep = 1, with one entry per check type of the classifier, each
\* with numEvalsRequired = maxBadAttempts, and exactly one strict entry in
\* last position; it is never re-created or refilled, and the metric list of
\* a sub-question is empty whenever that sub-question is the current one.
C26_MetricsCreatedOnceAtStepOne ==
  /\ [][CreatedAtStepOne]_vars
  /\ [][NeverRefilled]_vars
  /\ []SubQuestionListEmpty

\* the part that holds: the same, for a question that arrives trimmed
C26_CreatedOnceForTrimmedQuestion ==
  /\ [][(Trim(question) = question) => CreatedAtStepOne]_vars
  /\ [][(Trim(question) = question) => NeverRefilled]_vars
  /\ []((Trim(question) = question) => SubQuestionListEmpty)

\* step 1 gave the original question an empty metric list
C26_Witness ==
  /\ pc = "gen" /\ totalStep = 1 /\ currentQuestion = question
  /\ evaluationMetrics[question] = <<>>

\* an answer with text is dispatched while a sub-question is current
\* (beyond step 1, or where a direct answer is not taken as it is)
SubQuestionAnswered ==
  /\ pc = "exec" /\ thisStep.action = "answer" /\ thisStep.arg # NoPayload
  /\ currentQuestion # question
  /\ ~IsTrivialAnswer(totalStep, noDirectAnswer)

\* C27: an answer with non-empty text given while the current question is
\* a sub-question is never sent to the evaluator and always passes: the
\* 'failed, keep it in gaps' outcome does not occur, and the answer removes
\* the sub-question's (first) entry from gaps and is stored as knowledge.
C27_SubQuestionAnswerAlwaysPasses ==
  /\ []((pc \in {"gen", "exec"} /\ currentQuestion # question) =>
          evaluationMetrics[currentQuestion] = <<>>)
  /\ [][SubQuestionAnswered =>
          /\ invoked' = invoked
          /\ pc' = "loop"
          /\ Len(gaps') = Len(gaps) - 1
          /\ \E i \in DOMAIN gaps :
               /\ gaps[i] = currentQuestion
               /\ \A j \in 1 .. (i - 1) : gaps[j] # currentQuestion
               /\ gaps' = SubSeq(gaps, 1, i - 1) \o SubSeq(gaps, i + 1, Len(gaps))
          /\ allKnowledge' = Append(allKnowledge, KItem("qa", currentQuestion))]_vars

\* a sub-question was answered in a session that never called the evaluator
C27_Witness ==
  /\ pc = "loop" /\ totalStep >= 2
  /\ currentQuestion # question
  /\ allKnowledge # <<>>
  /\ allKnowledge[Len(allKnowledge)] = KItem("qa", currentQuestion)
  /\ currentQuestion \notin Range(gaps)
  /\ "evaluateAnswer" \notin invoked

\* a strict evaluation of the original question has just failed with a plan
StrictFailsWithPlan ==
  /\ OriginalAnswerFails
  /\ evaluation'.type = "strict" /\ evaluation'.plan

\* C28: the improvement-plan list only grows; it gains exactly one entry
\* each time a strict evaluation of the original question fails with an
\* improvement plan, also on the failure that exhausts the metrics; it never
\* holds more than maxBadAttempts entries; the recorded plans are passed to
\* every later prompt whose current question is the original question, and
\* to the beast-mode prompt.
C28_ImprovementPlansGrowAndReachPrompts ==
  /\ [][finalAnswerPIP' =
          IF StrictFailsWithPlan THEN finalAnswerPIP + 1 ELSE finalAnswerPIP]_vars
  /\ [](finalAnswerPIP <= maxBadAttempts)
  /\ []((pc = "gen" /\ currentQuestion = question) =>
          /\ msgWithKnowledge.question = question
          /\ msgWithKnowledge.hasPIP
          /\ msgWithKnowledge.pip = finalAnswerPIP)
  /\ [][(pc = "afterLoop" /\ pc' \in {"finalize", "thrown"}) =>
          /\ msgWithKnowledge'.question = question
          /\ msgWithKnowledge'.hasPIP
          /\ msgWithKnowledge'.pip = finalAnswerPIP]_vars

\* the beast-mode prompt received the plans of maxBadAttempts strict
\* failures, the last of which exhausted the metrics
C28_Witness ==
  /\ pc = "finalize" /\ "beastMode" \in invoked
  /\ question \in DOMAIN evaluationMetrics
  /\ evaluationMetrics[question] = <<>>
  /\ evaluation = [pass |-> FALSE, type |-> "strict", plan |-> TRUE]
  /\ finalAnswerPIP = maxBadAttempts
  /\ msgWithKnowledge = [question |-> question, hasPIP |-> TRUE, pip |-> maxBadAttempts]

\* answers to the original question that failed evaluation so far: each one
\* that left checks stored a 'why is this answer bad' item, and the one that
\* exhausted the checks left the loop
FailedAnswers ==
  Cardinality({ i \in DOMAIN allKnowledge : allKnowledge[i] = WhyBad(question) })
    + (IF /\ ~evaluation.pass
          /\ question \in DOMAIN evaluationMetrics
          /\ evaluationMetrics[question] = <<>>
       THEN 1 ELSE 0)

C31_SomeActionAlwaysPermitted ==
  /\ pc = "gen" =>
       /\ schema # {}
       /\ allowSearch \/ allowRead \/ allowAnswer \/ allowReflect \/ allowCoding
  /\ (pc \in {"finalize", "thrown"} /\ "beastMode" \in invoked) => schema = {"answer"}

\* step 1 with the freshness check and fifty URLs: visit alone is left
C31_Witness ==
  /\ pc = "gen" /\ totalStep = 1
  /\ weightedURLs = 50
  /\ schema = {"visit"}

\* C32: the action dispatched in a step is one of the actions the step's
\* schema permits, whichever tier of generateObject produced the object.
C32_DispatchedActionIsPermitted ==
  pc = "exec" => thisStep.action \in schema

\* an action with a payload is about to be executed though the schema of
\* the step does not permit it
C32_Witness ==
  /\ pc = "exec" /\ totalStep = 2
  /\ thisStep.action = "search" /\ thisStep.arg # NoPayload
  /\ "search" \notin schema

\* the URLs the model chose in a visit step: what its indices stand for in
\* the URL list of the step, normalized, the visited ones left out
ChosenTargets ==
  { normalizeUrl(urlList[thisStep.arg[i]]) :
      i \in { j \in DOMAIN thisStep.arg : thisStep.arg[j] \in DOMAIN urlList } }
    \ Range(visitedURLs)

\* C33: the list of URLs processed in one visit step has at most 5 entries
\* and no duplicates, lists the targets the model chose before any padding
\* from the ranked list, and holds no URL that was in visitedURLs when the
\* step started.
C33_VisitListCappedUniqueTargetsFirst ==
  [][(pc = "exec" /\ Len(thisStep.arg) > 0 /\ Len(urlList) > 0) =>
       LET list == thisStep'.arg
       IN /\ Len(list) <= 5
          /\ \A i, j \in DOMAIN list : i # j => list[i] # list[j]
          /\ \A i \in DOMAIN list : list[i] \notin Range(visitedURLs)
          /\ \A i \in DOMAIN list :
               list[i] \in ChosenTargets \/ list[i] \in Range(weightedURLs)
          /\ \A i, j \in DOMAIN list :
               (i < j /\ list[j] \in ChosenTargets) => list[i] \in ChosenTargets
          /\ (Len(list) < 5) =>
               ChosenTargets \cup Range(weightedURLs) \subseteq Range(list)
          /\ (Len(list) = 5 /\ Cardinality(ChosenTargets) <= 5) =>
               ChosenTargets \subseteq Range(list)]_vars

\* six URLs were ranked: the two chosen ones lead, three ranked ones follow
C33_Witness ==
  /\ pc = "loop" /\ "visit" \in invoked
  /\ Len(weightedURLs) = 6
  /\ thisStep.arg = <<U6, U5, U1, U2, U3Slash>>

\* C34: with teamSize = 1 and a model that only chooses permitted actions,
\* gaps never holds more than 4 questions: reflect is permitted only while
\* gaps has at most 2 entries, and one reflect step adds at most 2.
C34_GapsAtMostFour ==
  /\ [](Len(gaps) <= 4)
  /\ []((pc = "gen" /\ "reflect" \in schema) => Len(gaps) <= 2)
  /\ [][(pc = "exec" /\ thisStep.action = "reflect") =>
          /\ Len(gaps) <= 2
          /\ Len(gaps') <= Len(gaps) + 2]_vars
  /\ [][Len(gaps') > Len(gaps) => (pc = "exec" /\ thisStep.action = "reflect")]_vars

\* a reflect step on two open questions added two more
C34_Witness ==
  /\ pc = "loop" /\ thisStep.action = "reflect"
  /\ Len(gaps) = 4
  /\ gaps[1] = question


\* C35: every sub-session started in team mode runs with teamSize = 1, so it
\* never calls the planner and never starts sub-sessions of its own: the
\* depth of the getResponse calls is at most 1 and at most 1 + the number of
\* sub-problems sessions are alive at once.
C35_SubSessionsRunAlone ==
  /\ \A i \in DOMAIN sessions :
       sessions[i].parent # 0 =>
         /\ sessions[i].teamSize = 1
         /\ sessions[i].pc \notin {"plan", "await"}
         /\ sessions[i].children = <<>>
         /\ sessions[i].depth <= 1
  /\ Cardinality(Alive) <= 1 + Len(sessions[1].subproblems)
C35_Witness ==
  /\ Len(sessions) = 4
  /\ sessions[1].pc = "await"
  /\ Cardinality(Alive) = 4
  /\ \E i \in 2 .. 4 : sessions[i].pc = "step"
  /\ \E i \in 2 .. 4 : sessions[i].pc = "beast"


\* C36: the question of the k-th sub-session of a team session (the first
\* entry of its gaps, the question whose accepted answer ends its loop) is
\* the k-th sub-problem the planner returned.
C36_SubSessionResearchesItsSubProblem ==
  \A i \in DOMAIN sessions : \A k \in DOMAIN sessions[i].children :
    LET sub == sessions[sessions[i].children[k]]
    IN /\ sub.question = sessions[i].subproblems[k]
       /\ Head(sub.gaps) = sessions[i].subproblems[k]
\* a sub-session that was given the sub-problem b returns an accepted answer
\* to the question of its parent
C36_Witness ==
  \E i \in DOMAIN sessions :
    /\ sessions[i].parent = 1
    /\ sessions[i].arg = B
    /\ sessions[i].question = sessions[1].question
    /\ sessions[i].question # B
    /\ sessions[i].pc = "returned"


\* the sum of what the sessions have recorded so far
RECURSIVE SumRecorded(_)
SumRecorded(ss) == IF ss = <<>> THEN 0 ELSE Head(ss).recorded + SumRecorded(Tail(ss))

\* C37: under every interleaving of the sub-sessions of a team session on
\* the shared tracker no usage update is lost: the tracker's total always
\* equals the sum of the usages recorded so far by the parent and all the
\* sub-sessions, and the total never decreases.
C37_NoUsageUpdateLost ==
  /\ [](/\ totalTokens = SumRecorded(sessions)
        /\ totalTokens = getTotalUsage(usages))
  /\ [][totalTokens' >= totalTokens]_vars
C37_Witness ==
  /\ Len(sessions) >= 3
  /\ sessions[1].recorded = 2
  /\ sessions[2].recorded = 2 /\ sessions[2].pc = "loop"
  /\ sessions[3].recorded = 1 /\ sessions[3].pc = "evaluate"
  /\ totalTokens = 5 /\ Len(usages) = 5
  /\ usages[3].tool = "agent" /\ usages[4].tool = "agent" /\ usages[5].tool = "evaluator"


\* C38: a generateObject call that returns has added exactly one usage
\* record to the tracker, under the requested model when the primary call or
\* its manual parse produced the object and under 'fallback' when a fallback
\* tier did, however many attempts failed before; a call that throws, one
\* rejected for a missing model or schema included, has added none.
C38_OneUsageRecordPerReturningCall ==
  /\ pc = "returned" =>
       /\ Len(usages) = 1
       /\ usages[1].tool = IF tiers[Len(tiers)] \in {"fallback", "fallbackParse"}
                           THEN "fallback" ELSE options.model
       /\ totalTokens = usages[1].tokens
  /\ pc # "returned" => usages = <<>> /\ totalTokens = 0
  /\ (pc = "thrown" /\ ArgumentsMissing(options)) => tiers = <<>>
C38_Witness ==
  /\ pc = "returned"
  /\ numRetries[1] = MaxRetries
  /\ Count(tiers, "primary") = MaxRetries + 1
  /\ tiers[Len(tiers)] = "fallbackParse"
  /\ usages = << [tool |-> "fallback", tokens |-> 1] >>


SideInfoItems == SelectSeq(allKnowledge, LAMBDA k : k.type = "side-info")
\* the query the loop of executeSearchQueries is at has no results or fails
QueryWithoutResults ==
  pc = "query" /\ keywordsQueries # <<>> /\ Head(keywordsQueries).response # "results"

\* C39: in executeSearchQueries a failed clustering is not fatal and every
\* query that returned results contributes exactly one side-info item,
\* clustered or not, so that there are as many side-info items as searched
\* queries; a query that fails or returns nothing contributes no knowledge
\* item and is not listed as searched.
C39_OneSideInfoPerSearchedQuery ==
  /\ [](/\ Len(SideInfoItems) = Len(searchedQueries)
        /\ \A i \in DOMAIN searchedQueries : SideInfoItems[i].question = searchedQueries[i]
        /\ \A i \in DOMAIN allKnowledge : allKnowledge[i].question \in Range(searchedQueries))
  /\ [][(pc = "query" /\ keywordsQueries # <<>> /\ Head(keywordsQueries).response = "results") =>
          /\ pc' = "query"
          /\ searchedQueries' = Append(searchedQueries, Head(keywordsQueries).q)
          /\ Len(SideInfoItems') = Len(SideInfoItems) + 1]_vars
  /\ [][QueryWithoutResults =>
          allKnowledge' = allKnowledge /\ searchedQueries' = searchedQueries]_vars
\* three queries: the first clustered, the second with results whose
\* clustering failed, the third without results
C39_Witness ==
  /\ pc = "returned"
  /\ searchedQueries = << <<"q", "1">>, <<"q", "2">> >>
  /\ allKnowledge = << KItem("url", <<"q", "1">>), KItem("side-info", <<"q", "1">>),
                       KItem("side-info", <<"q", "2">>) >>
  /\ "search" \in invoked


\* the place of the first application of f in finalization, 0 when f was
\* not applied
Applied(f) ==
  IF \E i \in DOMAIN finalSteps : finalSteps[i] = f
  THEN CHOOSE i \in DOMAIN finalSteps :
         finalSteps[i] = f /\ \A j \in 1 .. (i - 1) : finalSteps[j] # f
  ELSE 0
Repairs ==
  { "finalizeAnswer", "fixCodeBlockIndentation", "fixBadURLMdLinks",
    "convertHtmlTablesToMd", "repairMarkdownFinal", "buildReferences", "updateReferences" }
\* one of the three treatments: markdown assembly alone for a trivial
\* answer, concatenation for an aggregated one, and otherwise every repair
\* of the pipeline once
OneOfThreeTreatments ==
  /\ ~Returned => finalSteps = <<>>
  /\ Returned =>
       /\ finalization \in {"markdown-only", "aggregated", "pipeline"}
       /\ finalization = "markdown-only" <=> trivialQuestion
       /\ finalization = "aggregated" <=> (~trivialQuestion /\ thisStep.isAggregated)
       /\ finalization = "markdown-only" => finalSteps = << "buildMdFromAnswer" >>
       /\ finalization = "aggregated" =>
            /\ finalSteps[1] = "join"
            /\ \A f \in Repairs : Applied(f) = 0
       /\ finalization = "pipeline" =>
            /\ Applied("join") = 0
            /\ \A f \in Repairs : Applied(f) > 0
\* what the orders stated below agree on: the footnotes are repaired first,
\* the tables are converted after the links and the code blocks, then the
\* final markdown repair, the references and their dates
RestOfTheOrder ==
  finalization = "pipeline" =>
    /\ Applied("repairMarkdownFootnotesOuter") < Applied("fixBadURLMdLinks")
    /\ Applied("repairMarkdownFootnotesOuter") < Applied("fixCodeBlockIndentation")
    /\ Applied("fixBadURLMdLinks") < Applied("convertHtmlTablesToMd")
    /\ Applied("fixCodeBlockIndentation") < Applied("convertHtmlTablesToMd")
    /\ Applied("convertHtmlTablesToMd") < Applied("repairMarkdownFinal")
    /\ Applied("repairMarkdownFinal") < Applied("buildReferences")
    /\ Applied("buildReferences") < Applied("updateReferences")

\* C40: finalization applies exactly one of three treatments: markdown
\* assembly alone for a trivial first-step answer, concatenation of the
\* sub-session answers for an aggregated answer, and otherwise the repair
\* pipeline in the order footnote repair, URL-link repair, code-block
\* indentation fix, HTML-table conversion, final markdown repair, then
\* reference building and then the datetime backfill of the references.
C40_OneTreatmentPipelineInStatedOrder ==
  /\ OneOfThreeTreatments
  /\ RestOfTheOrder
  /\ finalization = "pipeline" =>
       Applied("fixBadURLMdLinks") < Applied("fixCodeBlockIndentation")
\* C40, amended: as above, but in the pipeline the answer is first
\* rewritten by finalizeAnswer and the code-block indentation fix comes
\* before the URL-link repair.
C40_OneTreatmentPipelineInCodeOrder ==
  /\ OneOfThreeTreatments
  /\ RestOfTheOrder
  /\ finalization = "pipeline" =>
       /\ Applied("finalizeAnswer") = 1
       /\ Applied("fixCodeBlockIndentation") < Applied("fixBadURLMdLinks")
C40_Witness ==
  /\ Returned /\ finalization = "pipeline" /\ ~trivialQuestion /\ ~thisStep.isAggregated
  /\ SubSeq(finalSteps, 1, 8) =
       << "finalizeAnswer", "repairMarkdownFootnotesOuter", "fixCodeBlockIndentation",
          "fixBadURLMdLinks", "convertHtmlTablesToMd", "repairMarkdownFinal",
          "buildReferences", "updateReferences" >>

=============================================================================
